---- MODULE Spec2Model ----
(***************************************************************************)
(* Session-based Telegram activity scoring of the YELLOW ambassador        *)
(* tracker: the 3-hour session bucketer, the per-session scorer (first     *)
(* message 1.0, then a geometric bonus, capped), the daily aggregation and *)
(* the writers of the user_activity table (the realtime updater's          *)
(* incremental merge and the full-rebuild scripts).                        *)
(*                                                                         *)
(* Scores are Python floats in the source.  With the multipliers used here *)
(* (dyadic rationals, default 1.25) every unrounded score is a binary      *)
(* fraction that a double holds exactly, so the model keeps scores as      *)
(* exact fixed-point numbers: [q, r] stands for (q + r/Frac) / 10^4, i.e.  *)
(* q ten-thousandths plus a remainder of r/2^14 ten-thousandths.           *)
(* round(x, 4) is then round-half-even on r, as Python rounds a double.    *)
(***************************************************************************)
EXTENDS Integers, Sequences, FiniteSets, TLC

VARIABLES
    \* ---- the single-session scorer (one session bucket of one script) ----
    impl,            \* which script's scoring loop is running
    mult,            \* SCORING_BONUS_MULTIPLIER as a rational [num, den]
    received,        \* messages of the session delivered so far
    session_state,   \* {'messages', 'score', 'last_score'} of the bucket
    \* ---- the activity pipeline (message stream, state files, table) ----
    msgs,            \* the scoring group's messages; a message's id is its index
    last_message_id, \* telegram_tracker_state.json: the updater's watermark
    processor_last_run, \* telegram_processor_state.json: messages seen by the last cycle
    user_activity,   \* table user_activity keyed by <<user_id, activity_date>>
    \* the run that has just ended ("none" when a message was posted since):
    new_messages,    \* the message batch it read
    activity_data,   \* the in-memory result of its scoring loop
    records_to_save, \* the records it handed to its save function
    prev_activity,   \* the table as it was when it started
    last_op,         \* the script
    last_outcome,    \* how it ended: "ok" or "state_write_failed"
    repeated,        \* it came right after a run of the same script on the
                     \* same batch
    \* ---- the cross-engagement tracker ----
    tracker,         \* which tracker script the deployment runs
    tweets,          \* table tweets: tweet_id -> [author_id]
    reply_quote_data, \* what the advanced_search API returns per tweet
    retweeter_data,  \* what the retweeters API returns per tweet
    ambassador_engagements, \* table keyed by <<tweet_id, interacting_user_id, action_type>>
    utcnow,          \* the clock the trackers read
    \* the tracker run that has just ended (forgotten at the next interaction):
    eng_ran,         \* a run has just ended
    ambassador_ids,  \* the set it read from authors
    engagement_batches, \* the batches it handed to the store, in order
    prev_engagements, \* the table as it was when it started
    eng_repeated,    \* it came right after a run with the same inputs
    \* ---- the leaderboard generation scripts ----
    generator,       \* which generation script the deployment runs
    leaderboard,     \* table leaderboard (live): rows, one per user_id
    leaderboard_history, \* table leaderboard_history: rows of all snapshots
    now_utc,         \* the clock: the time of the latest invocation
    calculated,      \* what calculate_leaderboard returned to the latest run
    gen_outcome,     \* how the latest run ended
    gen_report,      \* what the latest run reported when it ended
    gen_steps,       \* the steps the latest run took, in order
    \* ---- two realtime updater runs started side by side ----
    runs,            \* per run: where it is in run_update, and its locals
    \* ---- the registration bot and the authors table ----
    authors,         \* table authors: the rows [telegram_id, twitter_id], in order
                     \* of insertion
    asking,          \* the chats whose conversation waits for a Twitter username
    \* ---- two generation runs started side by side ----
    generations,     \* per run: where it is in the script, and its locals
    \* ---- thread identification ----
    last_check,      \* the latest thread check: the script, what the API said of
                     \* each post, and the posts as they were stored before it
    \* ---- a paginated fetch in progress ----
    pagination       \* the loop: its script, where it is, the participant scanned,
                     \* the cursor, the items gathered and the latest response

scorerVars == <<impl, mult, received, session_state>>
pipeVars == <<msgs, last_message_id, processor_last_run, user_activity, new_messages,
              activity_data, records_to_save, prev_activity, last_op, last_outcome,
              repeated>>
engVars == <<tracker, tweets, reply_quote_data, retweeter_data, ambassador_engagements,
             utcnow, eng_ran, ambassador_ids, engagement_batches, prev_engagements,
             eng_repeated>>
boardVars == <<generator, leaderboard, leaderboard_history, now_utc, calculated,
               gen_outcome, gen_report, gen_steps>>
lateVars == <<authors, asking, generations, last_check, pagination>>
nonScorerVars == <<pipeVars, engVars, boardVars, runs, lateVars>>
nonPipeVars == <<scorerVars, engVars, boardVars, runs, lateVars>>
vars == <<impl, mult, received, session_state, msgs, last_message_id,
          processor_last_run, user_activity, new_messages, activity_data,
          records_to_save, prev_activity, last_op, last_outcome, repeated,
          tracker, tweets, reply_quote_data, retweeter_data, ambassador_engagements,
          utcnow, eng_ran, ambassador_ids, engagement_batches, prev_engagements,
          eng_repeated, generator, leaderboard, leaderboard_history, now_utc,
          calculated, gen_outcome, gen_report, gen_steps, runs, authors, asking,
          generations, last_check, pagination>>

-----------------------------------------------------------------------------
(* Fixed-point numbers *)

TenK == 10^4
Frac == 2^14

Num(q, r) == [q |-> q, r |-> r]
Zero == Num(0, 0)
One == Num(TenK, 0)

NumAdd(a, b) ==
    LET r == a.r + b.r
    IN  Num(a.q + b.q + (r \div Frac), r % Frac)

\* a * m for a rational m = [num, den]; exact whenever the product is a
\* multiple of 1/(10^4 * 2^14), which holds for every chain of the model.
NumMul(a, m) ==
    LET Q == a.q * m.num
        R == a.r * m.num
        c == ((Q % m.den) * Frac + R) \div m.den
    IN  Num((Q \div m.den) + (c \div Frac), c % Frac)

NumLeq(a, b) == a.q < b.q \/ (a.q = b.q /\ a.r <= b.r)

\* Python's round(x, 4) on an exactly represented x: round half to even.
Round4(a) ==
    IF 2 * a.r < Frac THEN Num(a.q, 0)
    ELSE IF 2 * a.r > Frac THEN Num(a.q + 1, 0)
    ELSE IF a.q % 2 = 0 THEN Num(a.q, 0) ELSE Num(a.q + 1, 0)

\* m^k in closed form (numerator and denominator powers), for k >= 0.
NumPow(m, k) ==
    LET P == m.num ^ k
        D == m.den ^ k
        K == (TenK * Frac) \div D
        f == (P % D) * K
    IN  Num((P \div D) * TenK + (f \div Frac), f % Frac)

RECURSIVE GeoSum(_, _)
\* sum_{i=0}^{n-1} m^i
GeoSum(m, n) == IF n = 0 THEN Zero ELSE NumAdd(GeoSum(m, n - 1), NumPow(m, n - 1))

-----------------------------------------------------------------------------
(* SessionBucketer *)

Digit(d) ==
    CASE d = 0 -> "0" [] d = 1 -> "1" [] d = 2 -> "2" [] d = 3 -> "3"
      [] d = 4 -> "4" [] d = 5 -> "5" [] d = 6 -> "6" [] d = 7 -> "7"
      [] d = 8 -> "8" [] d = 9 -> "9"

\* f"{n:02d}" for 0 <= n < 100
Pad2(n) == Digit(n \div 10) \o Digit(n % 10)

\* A faulty variant, used to show that the bucketing claim depends on the
\* format: the hours written without zero padding.
get_session_from_date_Unpadded(hour) ==
    LET session_start == (hour \div 3) * 3
        session_end == session_start + 3
        Plain(n) == IF n < 10 THEN Digit(n) ELSE Pad2(n)
    IN  Plain(session_start) \o "-" \o Plain(session_end)

get_session_from_date(hour) ==
    LET session_start == (hour \div 3) * 3
        session_end == session_start + 3
    IN  Pad2(session_start) \o "-" \o Pad2(session_end)

-----------------------------------------------------------------------------
(* ActivityScorer *)

DefaultMultiplier == [num |-> 5, den |-> 4]

NewSession == [messages |-> 0, score |-> Zero, last_score |-> Zero]

\* Faulty variants of the loop body, used to show that the claims below depend
\* on it: the bonus taken from the cumulative score, the cap test off by one,
\* and no cap test at all.
ScoreMessage_BonusOnTotal(st, cap, m) ==
    IF st.messages >= cap THEN st
    ELSE LET current_msg_score ==
                 IF st.messages = 0 THEN One ELSE NumMul(st.score, m)
         IN  [messages |-> st.messages + 1,
              score |-> NumAdd(st.score, current_msg_score),
              last_score |-> current_msg_score]

ScoreMessage_CapOffByOne(st, cap, m) ==
    IF st.messages > cap THEN st
    ELSE LET current_msg_score ==
                 IF st.messages = 0 THEN One ELSE NumMul(st.last_score, m)
         IN  [messages |-> st.messages + 1,
              score |-> NumAdd(st.score, current_msg_score),
              last_score |-> current_msg_score]

ScoreMessage_NoCap(st, cap, m) ==
    LET current_msg_score ==
            IF st.messages = 0 THEN One ELSE NumMul(st.last_score, m)
    IN  [messages |-> st.messages + 1,
         score |-> NumAdd(st.score, current_msg_score),
         last_score |-> current_msg_score]

\* One pass of the scoring loop body over a session's state.
ScoreMessage(st, cap, m) ==
    IF st.messages >= cap THEN st
    ELSE LET current_msg_score ==
                 IF st.messages = 0 THEN One ELSE NumMul(st.last_score, m)
         IN  [messages |-> st.messages + 1,
              score |-> NumAdd(st.score, current_msg_score),
              last_score |-> current_msg_score]

\* The scripts that carry a copy of the scoring loop.
Scripts == {"realtime_activity_updater", "populate_from_json", "yellow_pipeline",
            "process_downloaded_messages", "migration_populate_telegram_history",
            "populate_telegram_history", "telegram_data_processor"}

\* Scripts whose multiplier is the literal 1.25 rather than the environment's
\* SCORING_BONUS_MULTIPLIER.
LiteralMultiplierScripts == {"yellow_pipeline", "telegram_data_processor"}

MessageCap == 10
JsonMessageCap == 5

\* The literal in each script's "if session_state['messages'] >= N" (or the
\* slice [:10] of the data processor).
SessionCap(script) ==
    IF script = "populate_from_json" THEN JsonMessageCap ELSE MessageCap

RECURSIVE TdpLoop_NoUnit(_, _, _, _, _)
\* Faulty variant of the running-total recurrence: the "+ 1.0" is left out.
TdpLoop_NoUnit(i, k, total_score, score, m) ==
    IF i >= k THEN [messages |-> k, score |-> total_score, last_score |-> score]
    ELSE LET s == IF i = 0 THEN One
                  ELSE NumMul(total_score, [num |-> m.num - m.den, den |-> m.den])
         IN  TdpLoop_NoUnit(i + 1, k, NumAdd(total_score, s), s, m)

RECURSIVE TdpLoop(_, _, _, _, _)
\* for i, msg in enumerate(messages_in_session): the running-total recurrence
TdpLoop(i, k, total_score, score, m) ==
    IF i >= k THEN [messages |-> k, score |-> total_score, last_score |-> score]
    ELSE LET s == IF i = 0 THEN One
                  ELSE NumAdd(NumMul(total_score, [num |-> m.num - m.den, den |-> m.den]), One)
         IN  TdpLoop(i + 1, k, NumAdd(total_score, s), s, m)

\* TelegramDataProcessor.process_scoring_messages on a session of n messages:
\* the first 10 are kept and scored from scratch.
TdpScoreSession(n) ==
    LET k == IF n > MessageCap THEN MessageCap ELSE n
    IN  TdpLoop(0, k, Zero, Zero, DefaultMultiplier)

-----------------------------------------------------------------------------
(* The scorer on one session bucket: messages arrive one at a time. *)

MaxReceived == 12

\* Multipliers a deployment may set; all dyadic, so the float chain is exact.
Multipliers == {[num |-> 1, den |-> 2], [num |-> 1, den |-> 1], [num |-> 5, den |-> 4],
                [num |-> 3, den |-> 2], [num |-> 2, den |-> 1]}

PipeIdle ==
    /\ msgs = <<>>
    /\ last_message_id = 0
    /\ processor_last_run = 0
    /\ user_activity = <<>>
    /\ new_messages = <<>>
    /\ activity_data = <<>>
    /\ records_to_save = <<>>
    /\ prev_activity = <<>>
    /\ last_op = "none"
    /\ last_outcome = "ok"
    /\ repeated = FALSE

\* No tracker is deployed: no tweet, no interaction, no engagement row.
EngIdle ==
    /\ tweets = <<>>
    /\ reply_quote_data = <<>>
    /\ retweeter_data = <<>>
    /\ ambassador_engagements = <<>>
    /\ utcnow = 0
    /\ eng_ran = FALSE
    /\ ambassador_ids = {}
    /\ engagement_batches = <<>>
    /\ prev_engagements = <<>>
    /\ eng_repeated = FALSE

\* No generation script is deployed: both leaderboard tables are empty.
BoardIdle ==
    /\ leaderboard = {}
    /\ leaderboard_history = {}
    /\ now_utc = 0
    /\ calculated = <<>>
    /\ gen_outcome = "none"
    /\ gen_report = "none"
    /\ gen_steps = <<>>

\* The two runs of the realtime updater that may overlap, and a run that has
\* not started.
RunIds == {1, 2}
NotStarted == [pc |-> "idle", last_id |-> 0, new_messages |-> <<>>,
               records_to_save |-> <<>>]

\* No updater run is in progress.
RunsIdle == runs = [r \in RunIds |-> NotStarted]

\* A generation run that has not started.
GenerationNotStarted == [pc |-> "idle", now |-> 0, data |-> <<>>, snapshot |-> {}]

\* No thread check has been made.
NoCheck == [script |-> "none", answers |-> <<>>, before |-> <<>>]

\* No paginated fetch is in progress.
NoFetch == [script |-> "none", pc |-> "idle", user |-> 0, cursor |-> 0, all_data |-> 0,
            response |-> [status |-> "none"]]

\* Nobody talks to the registration bot, no generation run, thread check or
\* paginated fetch is under way.
LateIdle ==
    /\ authors = <<>>
    /\ asking = {}
    /\ generations = [r \in RunIds |-> GenerationNotStarted]
    /\ last_check = NoCheck
    /\ pagination = NoFetch

\* Every part of the system at rest.
InitIdle ==
    /\ impl = "realtime_activity_updater"
    /\ mult = DefaultMultiplier
    /\ received = 0
    /\ session_state = NewSession
    /\ PipeIdle
    /\ tracker = "none"
    /\ EngIdle
    /\ generator = "none"
    /\ BoardIdle
    /\ RunsIdle
    /\ LateIdle

InitScorer ==
    /\ impl \in Scripts
    /\ mult \in IF impl \in LiteralMultiplierScripts THEN {DefaultMultiplier} ELSE Multipliers
    /\ received = 0
    /\ session_state = NewSession
    /\ PipeIdle
    /\ tracker = "none"
    /\ EngIdle
    /\ generator = "none"
    /\ BoardIdle
    /\ RunsIdle
    /\ LateIdle

ReceiveMessage ==
    /\ received < MaxReceived
    /\ received' = received + 1
    /\ session_state' = IF impl = "telegram_data_processor"
                        THEN TdpScoreSession(received + 1)
                        ELSE ScoreMessage(session_state, SessionCap(impl), mult)
    /\ UNCHANGED <<impl, mult>>
    /\ UNCHANGED nonScorerVars

NextScorer == ReceiveMessage

SpecScorer == InitScorer /\ [][NextScorer]_vars

-----------------------------------------------------------------------------
(* Claims about the scorer *)

\* C2: the k-th scored message of a session (1 <= k <= CAP) scores
\* BONUS_MULTIPLIER^(k-1), the first exactly 1.0, and after CAP messages the
\* cumulative score is sum_{i=0}^{CAP-1} BONUS_MULTIPLIER^i.
C2_GeometricScores ==
    LET k == session_state.messages
    IN  /\ k >= 1 => session_state.last_score = NumPow(mult, k - 1)
        /\ k = 1 => session_state.last_score = One /\ session_state.score = One
        /\ k = SessionCap(impl) =>
               session_state.score = GeoSum(mult, SessionCap(impl))

\* CAP = 5, multiplier 1.25: five messages, cumulative score 8.20703125
C2_Witness ==
    /\ impl = "populate_from_json"
    /\ mult = DefaultMultiplier
    /\ session_state.messages = 5
    /\ session_state.last_score = Num(24414, 1024)
    /\ session_state.score = Num(82070, 5120)

\* C3: once a session's message_count has reached CAP, a further message
\* leaves message_count, cumulative_score and last_message_score unchanged.
C3_FrozenAtCap ==
    [][session_state.messages >= SessionCap(impl) => session_state' = session_state]_vars

C3_Witness ==
    /\ received > SessionCap(impl)
    /\ session_state.messages = SessionCap(impl)

\* C5: every session has 0 <= message_count <= CAP and a cumulative score equal
\* to the geometric partial sum of message_count terms, hence at most the
\* CAP-term sum, however many messages were received.
C5_SessionBounded ==
    /\ session_state.messages \in 0..SessionCap(impl)
    /\ session_state.score = GeoSum(mult, session_state.messages)
    /\ NumLeq(session_state.score, GeoSum(mult, SessionCap(impl)))

C5_Witness ==
    /\ impl = "migration_populate_telegram_history"
    /\ received = MaxReceived
    /\ session_state.messages = MessageCap

-----------------------------------------------------------------------------
(* The activity pipeline: the message stream, the scoring loop over a batch, *)
(* the daily aggregation and the writers of the user_activity table.        *)

\* Length of the message stream: MaxStream where the realtime updater runs
\* alone, MaxMsgs where several scripts write the table.
MaxStream == 3
MaxMsgs == 2

\* get_all_ambassador_telegram_ids(): the registered participants.
AmbassadorIds == {1, 2}
\* Senders of a group message: 0 stands for a message without from_id /
\* sender_id, 3 for a user who is not an ambassador.
Senders == {0, 1, 2, 3}
\* Calendar dates of the model's messages.
Days == {1, 2}
\* Hours of the day the model's messages carry: two session buckets.
Hours == {2, 3}

EmptyMap == <<>>

\* if not message.from_id ...: continue; if user_id not in ambassador_ids: continue
IsParticipantMessage_NoAmbassadorCheck(message) == message.from # 0

IsParticipantMessage(message) ==
    message.from # 0 /\ message.from \in AmbassadorIds

\* Faulty variant of the loop body: a message whose id is not above the
\* session's count so far is skipped, so that the result depends on the order
\* in which the messages are processed.
ScoreInto_SkipsOlder(data, message, cap, m) ==
    LET key == <<message.from, message.day>>
        session_id == get_session_from_date(message.hour)
        day == IF key \in DOMAIN data THEN data[key] ELSE EmptyMap
        st == IF session_id \in DOMAIN day THEN day[session_id] ELSE NewSession
        day2 == [s \in DOMAIN day \cup {session_id} |->
                    IF s = session_id /\ message.id > st.messages
                    THEN ScoreMessage(st, cap, m)
                    ELSE IF s = session_id THEN st ELSE day[s]]
    IN  [k \in DOMAIN data \cup {key} |-> IF k = key THEN day2 ELSE data[k]]

\* activity_data.setdefault(user_id, {}).setdefault(date_str, {}) and the
\* session's setdefault, followed by the scoring of the message.
ScoreInto(data, message, cap, m) ==
    LET key == <<message.from, message.day>>
        session_id == get_session_from_date(message.hour)
        day == IF key \in DOMAIN data THEN data[key] ELSE EmptyMap
        st == IF session_id \in DOMAIN day THEN day[session_id] ELSE NewSession
        day2 == [s \in DOMAIN day \cup {session_id} |->
                    IF s = session_id THEN ScoreMessage(st, cap, m) ELSE day[s]]
    IN  [k \in DOMAIN data \cup {key} |-> IF k = key THEN day2 ELSE data[k]]

RECURSIVE ScoringLoop(_, _, _, _)
\* for message in new_messages: ...
ScoringLoop(batch, data, cap, m) ==
    IF batch = <<>> THEN data
    ELSE LET message == Head(batch)
         IN  ScoringLoop(Tail(batch),
                         IF IsParticipantMessage(message)
                         THEN ScoreInto(data, message, cap, m) ELSE data,
                         cap, m)

RECURSIVE SumOver(_, _)
SumOver(S, sessions) ==
    IF S = {} THEN Zero
    ELSE LET s == CHOOSE x \in S : TRUE
         IN  NumAdd(sessions[s].score, SumOver(S \ {s}, sessions))

\* sum(details.get('score', 0.0) for details in sessions.values())
SumScores(sessions) == SumOver(DOMAIN sessions, sessions)

\* The realtime updater's merge of a day's new session data into the stored
\* session map: faulty variants that add the new data to the stored session,
\* and that drop the stored sessions the batch did not touch.
MergeSessions_Accumulate(final_sessions, session_updates) ==
    [s \in DOMAIN final_sessions \cup DOMAIN session_updates |->
        IF s \in DOMAIN session_updates
        THEN IF s \in DOMAIN final_sessions
             THEN [messages |-> final_sessions[s].messages + session_updates[s].messages,
                   score |-> NumAdd(final_sessions[s].score,
                                    Round4(session_updates[s].score))]
             ELSE [messages |-> session_updates[s].messages,
                   score |-> Round4(session_updates[s].score)]
        ELSE final_sessions[s]]

MergeSessions_DropUntouched(final_sessions, session_updates) ==
    [s \in DOMAIN session_updates |->
        [messages |-> session_updates[s].messages,
         score |-> Round4(session_updates[s].score)]]

\* for session_id, new_data in session_updates.items():
\*     final_sessions[session_id] = {'messages': ..., 'score': round(..., 4)}
MergeSessions(final_sessions, session_updates) ==
    [s \in DOMAIN final_sessions \cup DOMAIN session_updates |->
        IF s \in DOMAIN session_updates
        THEN [messages |-> session_updates[s].messages,
              score |-> Round4(session_updates[s].score)]
        ELSE final_sessions[s]]

\* One element of records_to_save of the realtime updater.
MergedRecord(existing_data, day_key, session_updates) ==
    LET stored == IF day_key \in DOMAIN existing_data
                  THEN existing_data[day_key].intervals_details_json ELSE EmptyMap
        final_sessions == MergeSessions(stored, session_updates)
    IN  [total_day_score |-> Round4(SumScores(final_sessions)),
         intervals_details_json |-> final_sessions]

\* supabase.table('user_activity').upsert(rows): a row replaces the stored row
\* with the same (user_id, activity_date), other rows are inserted.
upsert(table, rows) ==
    [k \in DOMAIN table \cup DOMAIN rows |->
        IF k \in DOMAIN rows THEN rows[k] ELSE table[k]]

\* Faulty variants of the realtime updater's save: one that keeps the stored row,
\* as the check-then-insert scripts do.
save_bulk_activity_to_supabase_KeepOld(table, activity_records) ==
    [k \in DOMAIN table \cup DOMAIN activity_records |->
        IF k \in DOMAIN table THEN table[k] ELSE activity_records[k]]

\* realtime_activity_updater.save_bulk_activity_to_supabase
save_bulk_activity_to_supabase(table, activity_records) ==
    upsert(table, activity_records)

\* A faulty variant of populate_from_json's save: the day's total is added to
\* the stored total instead of replacing it.
json_save_bulk_activity_to_supabase_Accumulate(table, activity_records) ==
    [k \in DOMAIN table \cup DOMAIN activity_records |->
        IF k \in DOMAIN activity_records
        THEN IF k \in DOMAIN table
             THEN [total_day_score |-> NumAdd(table[k].total_day_score,
                                              activity_records[k].total_day_score),
                   intervals_details_json |-> activity_records[k].intervals_details_json]
             ELSE activity_records[k]
        ELSE table[k]]

\* populate_from_json.save_bulk_activity_to_supabase
json_save_bulk_activity_to_supabase(table, activity_records) ==
    upsert(table, activity_records)

\* save_activity_to_supabase of Yellow-main/YELLOW/populate_telegram_history.py:
\* one row, upserted.
history_save_activity_to_supabase(table, day_key, record) ==
    upsert(table, [k \in {day_key} |-> record])

\* save_activity_to_supabase of yellow_pipeline.py, process_downloaded_messages.py
\* and migration/populate_telegram_history.py (DRY_RUN off): the row is written
\* only when no row with its key is stored ("DUPLICATA ... Pulando").
save_activity_to_supabase(table, day_key, record) ==
    IF day_key \in DOMAIN table THEN table
    ELSE upsert(table, [k \in {day_key} |-> record])

RECURSIVE SaveEach(_, _, _, _)
\* The caller's loop over its records, one save call per record.
SaveEach(table, records, keys, check_first) ==
    IF keys = {} THEN table
    ELSE LET k == CHOOSE x \in keys : TRUE
             t == IF check_first THEN save_activity_to_supabase(table, k, records[k])
                  ELSE history_save_activity_to_supabase(table, k, records[k])
         IN  SaveEach(t, records, keys \ {k}, check_first)

RECURSIVE save_activity_records(_, _, _)
\* TelegramDataProcessor.save_activity_records: insert unless a row exists.
save_activity_records(table, records, keys) ==
    IF keys = {} THEN table
    ELSE LET k == CHOOSE x \in keys : TRUE
             t == IF k \in DOMAIN table THEN table
                  ELSE [j \in DOMAIN table \cup {k} |->
                           IF j = k THEN records[k] ELSE table[j]]
         IN  save_activity_records(t, records, keys \ {k})

\* The session map as the rebuild scripts store it: without 'last_score',
\* the score rounded where the script rounds it.
StoredSessions(session_data, rounded) ==
    [s \in DOMAIN session_data |->
        [messages |-> session_data[s].messages,
         score |-> IF rounded THEN Round4(session_data[s].score)
                   ELSE session_data[s].score]]

\* What is wrong with a message as a JSON file holds it: nothing, a 'date'
\* that datetime.fromisoformat rejects, or a sender identity that is not a
\* user id.  Messages read from Telegram itself carry no defect.
Defects == {"none", "date", "sender"}
Defect(message) == IF "defect" \in DOMAIN message THEN message.defect ELSE "none"

RECURSIVE JsonScoringLoop(_, _)
\* populate_from_json.main, "for message in messages": each test that fails
\* ends with continue.
JsonScoringLoop(batch, data) ==
    IF batch = <<>> THEN data
    ELSE LET message == Head(batch)
             skipped == \/ message.from = 0
                        \/ Defect(message) = "sender"
                        \/ message.from \notin AmbassadorIds
                        \/ Defect(message) = "date"
         IN  JsonScoringLoop(Tail(batch),
                             IF skipped THEN data
                             ELSE ScoreInto(data, message, JsonMessageCap,
                                            DefaultMultiplier))

\* populate_from_json.main: records_to_save for the whole exported history.
PopulateFromJsonRecords(stream) ==
    LET data == JsonScoringLoop(stream, EmptyMap)
    IN  [k \in DOMAIN data |->
            [total_day_score |-> Round4(SumScores(data[k])),
             intervals_details_json |-> StoredSessions(data[k], TRUE)]]

\* populate_telegram_history (both copies): per ambassador and day, the day's
\* sessions scored with the cap of 10, stored unrounded.
TelegramHistoryRecords(stream) ==
    LET data == ScoringLoop(stream, EmptyMap, MessageCap, DefaultMultiplier)
    IN  [k \in DOMAIN data |->
            [total_day_score |-> SumScores(data[k]),
             intervals_details_json |-> StoredSessions(data[k], FALSE)]]

\* The realtime updater's records_to_save: the affected days, merged with the
\* rows read from the table.
RealtimeRecords(batch, existing_data) ==
    LET data == ScoringLoop(batch, EmptyMap, MessageCap, DefaultMultiplier)
    IN  [k \in DOMAIN data |-> MergedRecord(existing_data, k, data[k])]

RECURSIVE Reverse(_)
Reverse(seq) == IF seq = <<>> THEN <<>> ELSE Append(Reverse(Tail(seq)), Head(seq))

HasSender(message) == message.from # 0
OnDay(stream, d) == SelectSeq(stream, LAMBDA message : message.day = d)

\* YellowPipeline.download_telegram_messages: get_messages returns the newest
\* message first; the messages of the configured day that have a sender are kept.
YellowDayMessages(stream, d) == Reverse(SelectSeq(OnDay(stream, d), HasSender))

\* YellowPipeline.process_activity_scores(date_str, messages): one record per
\* sender with activity on the day.
YellowPipelineRecords(day_messages) ==
    TelegramHistoryRecords(day_messages)

\* TelegramDataProcessor.process_scoring_messages: the messages grouped by
\* user, date and session; each session keeps its first 10 messages.
TdpSessionMessages(batch, key, session) ==
    SelectSeq(batch, LAMBDA message :
        /\ IsParticipantMessage(message)
        /\ <<message.from, message.day>> = key
        /\ get_session_from_date(message.hour) = session)

TdpRecords(batch) ==
    LET scored == SelectSeq(batch, IsParticipantMessage)
        keys == {<<scored[i].from, scored[i].day>> : i \in 1..Len(scored)}
        sessions(key) == {get_session_from_date(scored[i].hour) :
                             i \in {j \in 1..Len(scored) :
                                       <<scored[j].from, scored[j].day>> = key}}
        entry(key, session) ==
            LET in_session == TdpSessionMessages(batch, key, session)
                st == TdpScoreSession(Len(in_session))
            IN  [message_count |-> st.messages,
                 score |-> st.score,
                 messages |-> [i \in 1..st.messages |-> in_session[i].id]]
        intervals(key) == [x \in sessions(key) |-> entry(key, x)]
    IN  [k \in keys |->
            [total_day_score |-> SumScores(intervals(k)),
             intervals_details_json |-> intervals(k)]]

InitPipeline ==
    /\ impl = "realtime_activity_updater"
    /\ mult = DefaultMultiplier
    /\ received = 0
    /\ session_state = NewSession
    /\ PipeIdle
    /\ tracker = "none"
    /\ EngIdle
    /\ generator = "none"
    /\ BoardIdle
    /\ RunsIdle
    /\ LateIdle

\* Telegram numbers a group's messages in the order they are posted, so a
\* message's date is never before the date of a message with a smaller id.
NotBefore(d, h, stream) ==
    IF stream = <<>> THEN TRUE
    ELSE LET last == stream[Len(stream)]
         IN  d > last.day \/ (d = last.day /\ h >= last.hour)

\* The variables new_messages .. repeated show the locals of the run that has
\* just ended; they are gone once something else happens.
RunForgotten ==
    /\ new_messages' = <<>>
    /\ activity_data' = EmptyMap
    /\ records_to_save' = EmptyMap
    /\ prev_activity' = EmptyMap
    /\ last_op' = "none"
    /\ last_outcome' = "ok"
    /\ repeated' = FALSE

\* A message is posted in the scoring group (the stream is cut at limit).
PostMessage(limit) ==
    /\ Len(msgs) < limit
    /\ \E s \in Senders, d \in Days, h \in Hours :
           /\ NotBefore(d, h, msgs)
           /\ msgs' = Append(msgs, [id |-> Len(msgs) + 1, from |-> s, day |-> d, hour |-> h])
    /\ RunForgotten
    /\ UNCHANGED <<last_message_id, processor_last_run, user_activity>>
    /\ UNCHANGED nonPipeVars

AddMessage == PostMessage(MaxMsgs)

AddMessageToStream == PostMessage(MaxStream)

\* What a run leaves behind for the next one to be compared with.
RunEnds(op, batch, data, records, outcome) ==
    /\ new_messages' = batch
    /\ activity_data' = data
    /\ records_to_save' = records
    /\ prev_activity' = user_activity
    /\ last_op' = op
    /\ last_outcome' = outcome
    /\ repeated' = (last_op = op /\ new_messages = batch)

\* Faulty variant of the run: the state file is written before the upsert, so
\* the watermark has moved even when the run ends without completing.
RunUpdate_StateFirst ==
    /\ last_message_id < Len(msgs)
    /\ \E outcome \in {"ok", "state_write_failed"} :
         LET batch == SubSeq(msgs, last_message_id + 1, Len(msgs))
             data == ScoringLoop(batch, EmptyMap, MessageCap, DefaultMultiplier)
             records == RealtimeRecords(batch, user_activity)
         IN  /\ RunEnds("realtime_activity_updater", batch, data, records, outcome)
             /\ user_activity' = save_bulk_activity_to_supabase(user_activity, records)
             /\ last_message_id' = batch[Len(batch)].id
    /\ UNCHANGED <<msgs, processor_last_run>>
    /\ UNCHANGED nonPipeVars

\* realtime_activity_updater.run_update.  The run returns early when there is
\* no message above the watermark.  The run may end after the upsert and
\* before the state file is written ("state_write_failed": save_last_processed_id
\* raises, or the job is stopped between the two writes).
RunUpdate ==
    /\ last_message_id < Len(msgs)
    /\ \E outcome \in {"ok", "state_write_failed"} :
         LET batch == SubSeq(msgs, last_message_id + 1, Len(msgs))
             data == ScoringLoop(batch, EmptyMap, MessageCap, DefaultMultiplier)
             records == RealtimeRecords(batch, user_activity)
         IN  /\ RunEnds("realtime_activity_updater", batch, data, records, outcome)
             /\ user_activity' = save_bulk_activity_to_supabase(user_activity, records)
             /\ last_message_id' = IF outcome = "ok" THEN batch[Len(batch)].id
                                   ELSE last_message_id
    /\ UNCHANGED <<msgs, processor_last_run>>
    /\ UNCHANGED nonPipeVars

\* populate_from_json.main: the exported history, rebuilt from scratch.
PopulateFromJson ==
    /\ msgs # <<>>
    /\ LET data == JsonScoringLoop(msgs, EmptyMap)
           records == PopulateFromJsonRecords(msgs)
       IN  /\ RunEnds("populate_from_json", msgs, data, records, "ok")
           /\ user_activity' = json_save_bulk_activity_to_supabase(user_activity, records)
    /\ UNCHANGED <<msgs, last_message_id, processor_last_run>>
    /\ UNCHANGED nonPipeVars

\* Yellow-main/YELLOW/populate_telegram_history.main: every ambassador, every
\* day since START_DATE; each day's record is upserted.
PopulateTelegramHistory ==
    /\ msgs # <<>>
    /\ LET data == ScoringLoop(msgs, EmptyMap, MessageCap, DefaultMultiplier)
           records == TelegramHistoryRecords(msgs)
       IN  /\ RunEnds("populate_telegram_history", msgs, data, records, "ok")
           /\ user_activity' = SaveEach(user_activity, records, DOMAIN records, FALSE)
    /\ UNCHANGED <<msgs, last_message_id, processor_last_run>>
    /\ UNCHANGED nonPipeVars

\* migration/populate_telegram_history.process_scoring_group: the same loop;
\* with DRY_RUN the records are only logged, otherwise a record is saved when
\* its key is not stored yet.
MigrationPopulate ==
    /\ msgs # <<>>
    /\ \E DRY_RUN \in BOOLEAN :
         LET data == ScoringLoop(msgs, EmptyMap, MessageCap, DefaultMultiplier)
             records == TelegramHistoryRecords(msgs)
         IN  /\ RunEnds(IF DRY_RUN THEN "migration_populate_telegram_history_dry_run"
                        ELSE "migration_populate_telegram_history",
                        msgs, data, records, "ok")
             /\ user_activity' = IF DRY_RUN THEN user_activity
                                 ELSE SaveEach(user_activity, records, DOMAIN records, TRUE)
    /\ UNCHANGED <<msgs, last_message_id, processor_last_run>>
    /\ UNCHANGED nonPipeVars

\* yellow_pipeline: download the configured day, then process_activity_scores
\* and save_activity_to_supabase per sender.
YellowPipelineRun ==
    /\ \E d \in Days :
         LET batch == YellowDayMessages(msgs, d)
             data == ScoringLoop(batch, EmptyMap, MessageCap, DefaultMultiplier)
             records == YellowPipelineRecords(batch)
         IN  /\ batch # <<>>
             /\ RunEnds("yellow_pipeline", batch, data, records, "ok")
             /\ user_activity' = SaveEach(user_activity, records, DOMAIN records, TRUE)
    /\ UNCHANGED <<msgs, last_message_id, processor_last_run>>
    /\ UNCHANGED nonPipeVars

\* TelegramDataProcessor.run_processing_cycle: the messages since the last
\* cycle that have a sender are scored and inserted (nothing is scored when
\* there is none), then last_run is set to the present.
TdpCycle ==
    /\ processor_last_run < Len(msgs)
    /\ LET batch == SelectSeq(SubSeq(msgs, processor_last_run + 1, Len(msgs)), HasSender)
           records == TdpRecords(batch)
       IN  /\ RunEnds("telegram_data_processor", batch, records, records, "ok")
           /\ user_activity' = save_activity_records(user_activity, records, DOMAIN records)
           /\ processor_last_run' = Len(msgs)
    /\ UNCHANGED <<msgs, last_message_id>>
    /\ UNCHANGED nonPipeVars

NextRealtime == AddMessageToStream \/ RunUpdate

\* The realtime updater alone on a growing message stream.
SpecRealtime == InitPipeline /\ [][NextRealtime]_vars

NextRebuild ==
    \/ AddMessage
    \/ PopulateFromJson
    \/ PopulateTelegramHistory
    \/ MigrationPopulate

\* The backfill scripts, each rebuilding the history from scratch.
SpecRebuild == InitPipeline /\ [][NextRebuild]_vars

Next ==
    \/ AddMessage
    \/ RunUpdate
    \/ YellowPipelineRun
    \/ TdpCycle

\* The periodically run jobs that write user_activity.
Spec == InitPipeline /\ [][Next]_vars

-----------------------------------------------------------------------------
(* Claims about the realtime updater's incremental merge *)

\* C1: when the realtime updater has processed the whole stream in successive
\* runs (each run seeing the messages above the stored watermark), every
\* (participant, date) holds the total_day_score that a single full rebuild
\* over all the messages computes.
C1_MergeEqualsRebuild ==
    (last_op = "realtime_activity_updater" /\ last_message_id = Len(msgs)) =>
        \A k \in DOMAIN PopulateFromJsonRecords(msgs) :
            /\ k \in DOMAIN user_activity
            /\ user_activity[k].total_day_score =
                   PopulateFromJsonRecords(msgs)[k].total_day_score

\* C4: the stored state of a (participant, date, session) never decreases from
\* one run to the next, and no longer changes once its message count is at CAP.
C4_StoredNeverDecreases ==
    [][\A k \in DOMAIN user_activity :
          /\ k \in DOMAIN user_activity'
          /\ \A s \in DOMAIN user_activity[k].intervals_details_json :
                LET old == user_activity[k].intervals_details_json[s]
                    new == user_activity'[k].intervals_details_json
                IN  /\ s \in DOMAIN new
                    /\ new[s].messages >= old.messages
                    /\ NumLeq(old.score, new[s].score)
                    /\ old.messages >= MessageCap => new[s] = old]_vars

\* C7: merging the same new-message set into the stored records a second time
\* (the run is repeated because the watermark was not written) gives the same
\* session maps and totals as merging it once.
C7_MergeIdempotent ==
    (repeated /\ last_op = "realtime_activity_updater") =>
        /\ user_activity = prev_activity
        /\ \A k \in DOMAIN records_to_save : records_to_save[k] = prev_activity[k]

C7_Witness ==
    /\ repeated
    /\ last_op = "realtime_activity_updater"
    /\ records_to_save # EmptyMap

\* C8: in an incremental merge a stored session that receives no new message
\* keeps its stored message count and score, and a stored day that receives
\* no new message is not written at all.
C8_UntouchedKept ==
    last_op = "realtime_activity_updater" =>
        /\ DOMAIN records_to_save = DOMAIN activity_data
        /\ \A k \in DOMAIN prev_activity :
              /\ k \in DOMAIN user_activity
              /\ k \notin DOMAIN activity_data => user_activity[k] = prev_activity[k]
              /\ k \in DOMAIN activity_data =>
                    \A s \in DOMAIN prev_activity[k].intervals_details_json
                             \ DOMAIN activity_data[k] :
                        /\ s \in DOMAIN user_activity[k].intervals_details_json
                        /\ user_activity[k].intervals_details_json[s] =
                               prev_activity[k].intervals_details_json[s]

\* A run that touches one session of a stored day and leaves another stored
\* session of that day, and another stored day, without new messages.
C8_Witness ==
    /\ last_op = "realtime_activity_updater"
    /\ \E k \in DOMAIN prev_activity \cap DOMAIN activity_data :
           DOMAIN prev_activity[k].intervals_details_json \ DOMAIN activity_data[k] # {}
    /\ DOMAIN prev_activity \ DOMAIN activity_data # {}

-----------------------------------------------------------------------------
(* Claims about the backfill scripts *)

RebuildScripts == {"populate_from_json", "populate_telegram_history",
                   "migration_populate_telegram_history",
                   "migration_populate_telegram_history_dry_run"}

\* C6: a full rebuild run a second time on the same messages leaves every
\* stored record (session map, per-session count and score, total) as the
\* first run left it.
C6_RebuildIdempotent ==
    (repeated /\ last_op \in RebuildScripts) => user_activity = prev_activity

C6_Witness ==
    /\ repeated
    /\ last_op = "populate_from_json"
    /\ records_to_save # EmptyMap
    /\ user_activity = records_to_save

-----------------------------------------------------------------------------
(* Claims about the periodically run jobs *)

Registered(batch) == SelectSeq(batch, LAMBDA message : message.from \in AmbassadorIds)

\* The scoring result and the records of a run of script op on a batch.
DataOf(op, batch) ==
    IF op = "telegram_data_processor" THEN TdpRecords(batch)
    ELSE ScoringLoop(batch, EmptyMap, MessageCap, DefaultMultiplier)

RecordsOf(op, batch, table) ==
    CASE op = "realtime_activity_updater" -> RealtimeRecords(batch, table)
      [] op = "yellow_pipeline" -> YellowPipelineRecords(batch)
      [] op = "telegram_data_processor" -> TdpRecords(batch)

\* C10: messages whose sender is not a registered participant, or that have no
\* sender, never affect a session state: a run computes the same session states
\* and the same records as on the batch without those messages, and no record
\* is stored for a non-participant.
C10_NonParticipantsIgnored ==
    /\ \A k \in DOMAIN user_activity : k[1] \in AmbassadorIds
    /\ last_op # "none" =>
          /\ activity_data = DataOf(last_op, Registered(new_messages))
          /\ records_to_save = RecordsOf(last_op, Registered(new_messages), prev_activity)

C10_Witness ==
    /\ last_op # "none"
    /\ \E i, j \in 1..Len(new_messages) :
           /\ new_messages[i].from \in AmbassadorIds
           /\ new_messages[j].from \notin AmbassadorIds
    /\ user_activity # EmptyMap

-----------------------------------------------------------------------------
(* The cross-engagement tracker: for each stored tweet the replies/quotes   *)
(* and the retweeters are fetched, classified into engagement events of     *)
(* ambassadors and written to ambassador_engagements.                       *)

\* An id as Python holds it: the number it denotes and whether it is a str or
\* an int.  Python's == and `in` tell "2" from 2; str() makes both "2".
\* NoId is None (user.get('id') of a record without id).
NoId == [n |-> 0, rep |-> "none"]

\* str(x); str(None) is the text "None", the id of nobody.
str(x) == [n |-> x.n, rep |-> "str"]

\* The text a TEXT column holds for an id.
Text(x) == x.n

ParticipantNumbers == {1, 2}
Reps == {"str", "int"}
\* The ids the platform API may put in an interaction record.
ApiIds == {NoId} \cup {[n |-> n, rep |-> r] : n \in ParticipantNumbers, r \in Reps}
\* authors.twitter_id is text.
TwitterIds == {[n |-> n, rep |-> "str"] : n \in ParticipantNumbers}
\* The registered sets a run may read from authors: participant 1 is
\* registered, participant 2 may or may not be.
AmbassadorSets == {{[n |-> 1, rep |-> "str"]}, TwitterIds}
TweetIds == {"t1"}
\* The author of the tweet is participant 1.
AuthorNumbers == {1}
\* Readings of the clock.
Times == {0, 1}
\* Interaction records per deployment (both API lists together).
MaxInteractions == 2

Trackers == {"automation/cross_engagement_tracker", "cross_engagement_tracker",
             "Yellow-main/cross_engagement_tracker", "analytics_pipeline"}

Engagement(tweet_id, tweet_author_id, user_id, action, points, created_at) ==
    [tweet_id |-> tweet_id, tweet_author_id |-> tweet_author_id,
     interacting_user_id |-> user_id, action_type |-> action,
     points_awarded |-> points, created_at |-> created_at]

\* if retweeter_id in ambassador_ids  (a mutant: every actor is taken)
IsAmbassador_Anyone(user_id, ids) == TRUE

IsAmbassador(user_id, ids) == user_id \in ids

\* user_engagement_tracker[user_id].add(action), the set created when missing
AddAction(user_engagement_tracker, user_id, action) ==
    [u \in DOMAIN user_engagement_tracker \cup {user_id} |->
        IF u = user_id
        THEN (IF u \in DOMAIN user_engagement_tracker
              THEN user_engagement_tracker[u] ELSE {}) \cup {action}
        ELSE user_engagement_tracker[u]]

RECURSIVE TrackRetweeters(_, _, _, _)
\* automation/cross_engagement_tracker.main, step 2: for user in retweeter_data
TrackRetweeters(users, tweet_author_id, ids, user_engagement_tracker) ==
    IF users = <<>> THEN user_engagement_tracker
    ELSE LET retweeter_id == str(Head(users).id)
             next == IF retweeter_id = str(tweet_author_id) THEN user_engagement_tracker
                     ELSE IF IsAmbassador(retweeter_id, ids)
                          THEN AddAction(user_engagement_tracker, retweeter_id,
                                         "retweet_or_quote")
                          ELSE user_engagement_tracker
         IN  TrackRetweeters(Tail(users), tweet_author_id, ids, next)

RECURSIVE TrackRepliesAndQuotes(_, _, _, _)
\* automation/cross_engagement_tracker.main, step 3: for item in reply_quote_data
TrackRepliesAndQuotes(items, tweet_author_id, ids, user_engagement_tracker) ==
    IF items = <<>> THEN user_engagement_tracker
    ELSE LET item == Head(items)
             interaction_author_id == str(item.author_id)
             created == IF interaction_author_id \in DOMAIN user_engagement_tracker
                        THEN user_engagement_tracker
                        ELSE [u \in DOMAIN user_engagement_tracker
                                     \cup {interaction_author_id} |->
                                 IF u = interaction_author_id THEN {}
                                 ELSE user_engagement_tracker[u]]
             next == IF interaction_author_id = str(tweet_author_id)
                     THEN user_engagement_tracker
                     ELSE IF IsAmbassador(interaction_author_id, ids)
                          THEN IF item.isReply
                               THEN AddAction(created, interaction_author_id, "reply")
                               ELSE IF "retweet_or_quote" \notin created[interaction_author_id]
                                    THEN AddAction(created, interaction_author_id,
                                                   "retweet_or_quote")
                                    ELSE created
                          ELSE user_engagement_tracker
         IN  TrackRepliesAndQuotes(Tail(items), tweet_author_id, ids, next)

\* automation/cross_engagement_tracker.main, steps 2-4 for one tweet: the
\* tuples added to unique_engagements.
AutomationEngagements(tweet_id, ids) ==
    LET tweet_author_id == tweets[tweet_id].author_id
        user_engagement_tracker ==
            TrackRepliesAndQuotes(reply_quote_data[tweet_id], tweet_author_id, ids,
                TrackRetweeters(retweeter_data[tweet_id], tweet_author_id, ids, <<>>))
    IN  UNION {{Engagement(tweet_id, tweet_author_id, user_id, action, 2,
                           tweets[tweet_id].createdat) :
                    action \in user_engagement_tracker[user_id]} :
               user_id \in DOMAIN user_engagement_tracker}

RECURSIVE RootReplies(_, _, _, _, _)
\* cross_engagement_tracker.process_tweet_engagements: for reply in replies_quotes
RootReplies(items, tweet_id, author_id, ids, now) ==
    IF items = <<>> THEN <<>>
    ELSE LET user_id == Head(items).author_id
             rest == RootReplies(Tail(items), tweet_id, author_id, ids, now)
         IN  IF user_id # NoId /\ IsAmbassador(user_id, ids) /\ user_id # author_id
             THEN <<Engagement(tweet_id, author_id, user_id, "reply", 2, now)>> \o rest
             ELSE rest

RECURSIVE RootRetweets(_, _, _, _, _)
\* cross_engagement_tracker.process_tweet_engagements: for retweet in retweeters
RootRetweets(users, tweet_id, author_id, ids, now) ==
    IF users = <<>> THEN <<>>
    ELSE LET user_id == Head(users).id
             rest == RootRetweets(Tail(users), tweet_id, author_id, ids, now)
         IN  IF user_id # NoId /\ IsAmbassador(user_id, ids) /\ user_id # author_id
             THEN <<Engagement(tweet_id, author_id, user_id, "retweet_or_quote", 1, now)>>
                  \o rest
             ELSE rest

process_tweet_engagements(tweet_id, ids, now) ==
    RootReplies(reply_quote_data[tweet_id], tweet_id, tweets[tweet_id].author_id, ids, now)
    \o RootRetweets(retweeter_data[tweet_id], tweet_id, tweets[tweet_id].author_id, ids, now)

RECURSIVE YellowMainReplies(_, _, _, _, _)
\* Yellow-main/cross_engagement_tracker.main: for item in reply_quote_data
YellowMainReplies(items, tweet_id, tweet_author_id, ids, now_iso) ==
    IF items = <<>> THEN <<>>
    ELSE LET item == Head(items)
             interaction_author_id == item.author_id
             rest == YellowMainReplies(Tail(items), tweet_id, tweet_author_id, ids, now_iso)
         IN  IF /\ IsAmbassador(interaction_author_id, ids)
                /\ str(interaction_author_id) # str(tweet_author_id)
             THEN <<Engagement(tweet_id, tweet_author_id, str(interaction_author_id),
                               IF item.isReply THEN "reply" ELSE "retweet_or_quote",
                               2, now_iso)>> \o rest
             ELSE rest

RECURSIVE YellowMainRetweets(_, _, _, _, _)
\* Yellow-main/cross_engagement_tracker.main: for user in retweeter_data
YellowMainRetweets(users, tweet_id, tweet_author_id, ids, now_iso) ==
    IF users = <<>> THEN <<>>
    ELSE LET interaction_author_id == Head(users).id
             rest == YellowMainRetweets(Tail(users), tweet_id, tweet_author_id, ids, now_iso)
         IN  IF /\ IsAmbassador(interaction_author_id, ids)
                /\ str(interaction_author_id) # str(tweet_author_id)
             THEN <<Engagement(tweet_id, tweet_author_id, str(interaction_author_id),
                               "retweet_or_quote", 2, now_iso)>> \o rest
             ELSE rest

YellowMainEngagements(tweet_id, ids, now_iso) ==
    YellowMainReplies(reply_quote_data[tweet_id], tweet_id, tweets[tweet_id].author_id,
                      ids, now_iso)
    \o YellowMainRetweets(retweeter_data[tweet_id], tweet_id, tweets[tweet_id].author_id,
                          ids, now_iso)

\* AnalyticsPipeline.analyze_cross_engagements: the set unique_engagements of
\* one tweet; every item of the replies list counts as a reply.
AnalyticsEngagements(tweet_id, ids) ==
    LET tweet_author_id == tweets[tweet_id].author_id
        retweeters == retweeter_data[tweet_id]
        replies == reply_quote_data[tweet_id]
    IN  {Engagement(tweet_id, tweet_author_id, str(retweeters[i].id), "retweet_or_quote", 2,
                    tweets[tweet_id].createdat) :
            i \in {j \in 1..Len(retweeters) :
                      /\ IsAmbassador(str(retweeters[j].id), ids)
                      /\ str(retweeters[j].id) # tweet_author_id}}
        \cup
        {Engagement(tweet_id, tweet_author_id, str(replies[i].author_id), "reply", 2,
                    tweets[tweet_id].createdat) :
            i \in {j \in 1..Len(replies) :
                      /\ IsAmbassador(str(replies[j].author_id), ids)
                      /\ str(replies[j].author_id) # tweet_author_id}}

RECURSIVE SetToSeq(_)
\* [ {...} for eng in unique_engagements ]: the set as a list, in some order
SetToSeq(S) ==
    IF S = {} THEN <<>>
    ELSE LET x == CHOOSE y \in S : TRUE IN <<x>> \o SetToSeq(S \ {x})

\* The UNIQUE constraint of ambassador_engagements.
EngagementKey(e) == <<e.tweet_id, Text(e.interacting_user_id), e.action_type>>

EngagementRow(e) ==
    [tweet_author_id |-> Text(e.tweet_author_id), points_awarded |-> e.points_awarded,
     created_at |-> e.created_at]

HasDuplicateKeys(engagements) ==
    \E i, j \in 1..Len(engagements) :
        i < j /\ EngagementKey(engagements[i]) = EngagementKey(engagements[j])

KeysOf(engagements) == {EngagementKey(engagements[i]) : i \in 1..Len(engagements)}

RowFor(engagements, k) ==
    EngagementRow(engagements[CHOOSE i \in 1..Len(engagements) :
                                  EngagementKey(engagements[i]) = k])

\* A faulty upsert that adds the points of a row to the stored row's.
upsert_on_conflict_AddPoints(table, engagements) ==
    [k \in DOMAIN table \cup KeysOf(engagements) |->
        IF k \in KeysOf(engagements)
        THEN IF k \in DOMAIN table
             THEN [RowFor(engagements, k) EXCEPT
                      !.points_awarded = @ + table[k].points_awarded]
             ELSE RowFor(engagements, k)
        ELSE table[k]]

\* supabase...upsert(rows, on_conflict='tweet_id,interacting_user_id,action_type'):
\* INSERT ... ON CONFLICT DO UPDATE.  A statement whose rows hit the same key
\* twice is rejected as a whole; the caller logs the exception.
upsert_on_conflict(table, engagements) ==
    IF HasDuplicateKeys(engagements) THEN table
    ELSE [k \in DOMAIN table \cup KeysOf(engagements) |->
             IF k \in KeysOf(engagements) THEN RowFor(engagements, k) ELSE table[k]]

\* supabase...upsert(rows) without on_conflict: the conflict target is the
\* primary key, which the rows do not carry, so the rows are inserted; a row
\* that violates the UNIQUE constraint makes the whole statement fail.
upsert_on_primary_key(table, engagements) ==
    IF HasDuplicateKeys(engagements) \/ KeysOf(engagements) \cap DOMAIN table # {}
    THEN table
    ELSE [k \in DOMAIN table \cup KeysOf(engagements) |->
             IF k \in KeysOf(engagements) THEN RowFor(engagements, k) ELSE table[k]]

\* process_and_save_engagements / save_engagements_batch of each script
process_and_save_engagements(script, table, engagements) ==
    IF engagements = <<>> THEN table
    ELSE IF script = "Yellow-main/cross_engagement_tracker"
         THEN upsert_on_primary_key(table, engagements)
         ELSE upsert_on_conflict(table, engagements)

RECURSIVE SaveBatches(_, _, _)
SaveBatches(script, table, batches) ==
    IF batches = <<>> THEN table
    ELSE SaveBatches(script, process_and_save_engagements(script, table, Head(batches)),
                     Tail(batches))

RECURSIVE PerTweetBatches(_, _, _, _)
\* The scripts that save after each tweet.
PerTweetBatches(script, todo, ids, now) ==
    IF todo = {} THEN <<>>
    ELSE LET tweet_id == CHOOSE t \in todo : TRUE
             engagements == IF script = "cross_engagement_tracker"
                            THEN process_tweet_engagements(tweet_id, ids, now)
                            ELSE SetToSeq(AnalyticsEngagements(tweet_id, ids))
             rest == PerTweetBatches(script, todo \ {tweet_id}, ids, now)
         IN  IF engagements = <<>> THEN rest ELSE <<engagements>> \o rest

RECURSIVE AllNewEngagements(_, _, _)
\* Yellow-main: all_new_engagements over all tweets, saved as one batch.
AllNewEngagements(todo, ids, now_iso) ==
    IF todo = {} THEN <<>>
    ELSE LET tweet_id == CHOOSE t \in todo : TRUE
         IN  YellowMainEngagements(tweet_id, ids, now_iso)
             \o AllNewEngagements(todo \ {tweet_id}, ids, now_iso)

\* The batches a run of the script hands to the store.  The automation script
\* saves unique_engagements every 10 tweets and at the end; with fewer than 10
\* tweets that is one final batch.
BatchesOf(script, ids, now) ==
    IF ids = {} \/ DOMAIN tweets = {} THEN <<>>
    ELSE CASE script = "automation/cross_engagement_tracker" ->
                LET unique_engagements ==
                        UNION {AutomationEngagements(t, ids) : t \in DOMAIN tweets}
                IN  IF unique_engagements = {} THEN <<>>
                    ELSE <<SetToSeq(unique_engagements)>>
           [] script = "Yellow-main/cross_engagement_tracker" ->
                LET all_new_engagements == AllNewEngagements(DOMAIN tweets, ids, now)
                IN  IF all_new_engagements = <<>> THEN <<>> ELSE <<all_new_engagements>>
           [] OTHER -> PerTweetBatches(script, DOMAIN tweets, ids, now)

InitEngagement ==
    /\ impl = "realtime_activity_updater"
    /\ mult = DefaultMultiplier
    /\ received = 0
    /\ session_state = NewSession
    /\ PipeIdle
    /\ tracker \in Trackers
    /\ EngIdle
    /\ generator = "none"
    /\ BoardIdle
    /\ RunsIdle
    /\ LateIdle

EngagementRunForgotten ==
    /\ eng_ran' = FALSE
    /\ ambassador_ids' = {}
    /\ engagement_batches' = <<>>
    /\ prev_engagements' = <<>>
    /\ eng_repeated' = FALSE

\* An ambassador's tweet is stored in tweets.  The author id comes back from
\* the table as text or as a number, depending on the column.
SaveTweet ==
    /\ \E tweet_id \in TweetIds \ DOMAIN tweets, n \in AuthorNumbers, r \in Reps :
          /\ tweets' = [t \in DOMAIN tweets \cup {tweet_id} |->
                           IF t = tweet_id
                           THEN [author_id |-> [n |-> n, rep |-> r], createdat |-> utcnow]
                           ELSE tweets[t]]
          /\ reply_quote_data' = [t \in DOMAIN tweets \cup {tweet_id} |->
                                     IF t = tweet_id THEN <<>> ELSE reply_quote_data[t]]
          /\ retweeter_data' = [t \in DOMAIN tweets \cup {tweet_id} |->
                                   IF t = tweet_id THEN <<>> ELSE retweeter_data[t]]
    /\ EngagementRunForgotten
    /\ UNCHANGED <<tracker, ambassador_engagements, utcnow>>
    /\ UNCHANGED <<scorerVars, pipeVars, boardVars, runs, lateVars>>

\* Somebody replies to or quotes a stored tweet.
ReplyOrQuote ==
    /\ \E tweet_id \in DOMAIN tweets, id \in ApiIds, isReply \in BOOLEAN :
          /\ Len(reply_quote_data[tweet_id]) + Len(retweeter_data[tweet_id]) < MaxInteractions
          /\ reply_quote_data' =
                 [reply_quote_data EXCEPT
                     ![tweet_id] = Append(@, [author_id |-> id, isReply |-> isReply])]
    /\ EngagementRunForgotten
    /\ UNCHANGED <<tracker, tweets, retweeter_data, ambassador_engagements, utcnow>>
    /\ UNCHANGED <<scorerVars, pipeVars, boardVars, runs, lateVars>>

\* Somebody retweets a stored tweet.
Retweet ==
    /\ \E tweet_id \in DOMAIN tweets, id \in ApiIds :
          /\ Len(reply_quote_data[tweet_id]) + Len(retweeter_data[tweet_id]) < MaxInteractions
          /\ retweeter_data' = [retweeter_data EXCEPT ![tweet_id] = Append(@, [id |-> id])]
    /\ EngagementRunForgotten
    /\ UNCHANGED <<tracker, tweets, reply_quote_data, ambassador_engagements, utcnow>>
    /\ UNCHANGED <<scorerVars, pipeVars, boardVars, runs, lateVars>>

\* One run of the deployed tracker: main() of the script.  Without a stored
\* tweet the run returns before it fetches or writes anything.
TrackerRun ==
    /\ DOMAIN tweets # {}
    /\ \E ids \in AmbassadorSets, now \in Times :
          /\ now >= utcnow
          /\ utcnow' = now
          /\ ambassador_ids' = ids
          /\ engagement_batches' = BatchesOf(tracker, ids, now)
          /\ ambassador_engagements' =
                 SaveBatches(tracker, ambassador_engagements, BatchesOf(tracker, ids, now))
          /\ eng_repeated' = (eng_ran /\ ambassador_ids = ids)
    /\ eng_ran' = TRUE
    /\ prev_engagements' = ambassador_engagements
    /\ UNCHANGED <<tracker, tweets, reply_quote_data, retweeter_data>>
    /\ UNCHANGED <<scorerVars, pipeVars, boardVars, runs, lateVars>>

NextEngagement == SaveTweet \/ ReplyOrQuote \/ Retweet \/ TrackerRun

\* A deployment of one tracker script on a tweet that gathers interactions.
SpecEngagement == InitEngagement /\ [][NextEngagement]_vars

-----------------------------------------------------------------------------
(* Claims about the cross-engagement tracker *)

\* The events of the batches the last run handed to the store.
Emitted ==
    UNION {{engagement_batches[b][i] : i \in 1..Len(engagement_batches[b])} :
           b \in 1..Len(engagement_batches)}

RECURSIVE SumPoints(_, _)
SumPoints(table, keys) ==
    IF keys = {} THEN 0
    ELSE LET k == CHOOSE x \in keys : TRUE
         IN  table[k].points_awarded + SumPoints(table, keys \ {k})

\* The points stored for participant n on a post.
PostPoints(table, tweet_id, n) ==
    SumPoints(table, {k \in DOMAIN table : k[1] = tweet_id /\ k[2] = n})

\* C11: no emitted and no stored event has the post's author as the acting
\* participant, whether the ids are held as strings or as integers.
C11_NoSelfEngagement ==
    /\ \A e \in Emitted : Text(e.interacting_user_id) # Text(e.tweet_author_id)
    /\ \A k \in DOMAIN ambassador_engagements :
           k[2] # ambassador_engagements[k].tweet_author_id

\* C12: no batch handed to the store holds two events with the same
\* (tweet_id, interacting_user_id, action_type).
C12_OneEventPerKey ==
    \A b \in 1..Len(engagement_batches) : ~HasDuplicateKeys(engagement_batches[b])

\* C13: a tracker run repeated on the same post, the same interaction lists
\* and the same ambassadors leaves the stored events of the post and the
\* points they give each participant as the run before left them.
C13_ReprocessingDoesNotInflate ==
    eng_repeated =>
        /\ DOMAIN ambassador_engagements = DOMAIN prev_engagements
        /\ \A k \in DOMAIN ambassador_engagements :
              /\ ambassador_engagements[k].points_awarded = prev_engagements[k].points_awarded
              /\ ambassador_engagements[k].tweet_author_id = prev_engagements[k].tweet_author_id
        /\ \A t \in DOMAIN tweets, n \in ParticipantNumbers :
              PostPoints(ambassador_engagements, t, n) = PostPoints(prev_engagements, t, n)
        /\ tracker \in {"automation/cross_engagement_tracker",
                        "Yellow-main/cross_engagement_tracker"} =>
              ambassador_engagements = prev_engagements

\* Participant 2 retweeted and replied to participant 1's post: two events and
\* 4 points after the first run and after the second.
C13_Witness ==
    /\ eng_repeated
    /\ tracker = "automation/cross_engagement_tracker"
    /\ {k[3] : k \in {j \in DOMAIN ambassador_engagements : j[2] = 2}}
           = {"reply", "retweet_or_quote"}
    /\ PostPoints(ambassador_engagements, "t1", 2) = 4
    /\ PostPoints(prev_engagements, "t1", 2) = 4

\* C14: for a post of B and a registered participant A other than B, the run
\* emits a 'reply' event for A iff A is the author of a reply in the
\* reply/quote list, and a 'retweet_or_quote' event iff A is among the
\* retweeters or the author of a quote.
C14_ReplyAndRetweetIndependent ==
    eng_ran =>
        \A t \in DOMAIN tweets, a \in ambassador_ids :
            Text(a) # Text(tweets[t].author_id) =>
                /\ (\E e \in Emitted : /\ e.tweet_id = t
                                        /\ Text(e.interacting_user_id) = Text(a)
                                        /\ e.action_type = "reply")
                   <=> (\E i \in 1..Len(reply_quote_data[t]) :
                           /\ reply_quote_data[t][i].isReply
                           /\ Text(reply_quote_data[t][i].author_id) = Text(a))
                /\ (\E e \in Emitted : /\ e.tweet_id = t
                                        /\ Text(e.interacting_user_id) = Text(a)
                                        /\ e.action_type = "retweet_or_quote")
                   <=> \/ \E i \in 1..Len(retweeter_data[t]) :
                             Text(retweeter_data[t][i].id) = Text(a)
                       \/ \E i \in 1..Len(reply_quote_data[t]) :
                             /\ ~reply_quote_data[t][i].isReply
                             /\ Text(reply_quote_data[t][i].author_id) = Text(a)

\* C15: every emitted event carries 2 points, and the points stored for a
\* participant on a post never exceed 4.
C15_PointsBounded ==
    /\ \A e \in Emitted : e.points_awarded = 2
    /\ \A t \in DOMAIN tweets, n \in ParticipantNumbers :
           PostPoints(ambassador_engagements, t, n) <= 4

\* C16: every event a run emits is for an id of the registered set the run
\* read, and comes from an interaction of that participant; an interaction
\* without actor id or by an unregistered actor gives no event.
C16_OnlyRecognizedParticipants ==
    eng_ran =>
        \A e \in Emitted :
            /\ e.interacting_user_id \in ambassador_ids
            /\ \/ \E i \in 1..Len(reply_quote_data[e.tweet_id]) :
                     /\ reply_quote_data[e.tweet_id][i].author_id # NoId
                     /\ str(reply_quote_data[e.tweet_id][i].author_id) = e.interacting_user_id
               \/ \E i \in 1..Len(retweeter_data[e.tweet_id]) :
                     /\ retweeter_data[e.tweet_id][i].id # NoId
                     /\ str(retweeter_data[e.tweet_id][i].id) = e.interacting_user_id

\* A run of the automation tracker that emits an event although the lists
\* also hold an interaction without actor id.
C16_Witness ==
    /\ eng_ran
    /\ tracker = "automation/cross_engagement_tracker"
    /\ Emitted # {}
    /\ \/ \E i \in 1..Len(reply_quote_data["t1"]) : reply_quote_data["t1"][i].author_id = NoId
       \/ \E i \in 1..Len(retweeter_data["t1"]) : retweeter_data["t1"][i].id = NoId

-----------------------------------------------------------------------------
(* LeaderboardAggregator: the generation scripts and their two tables *)

\* The entry points that write the leaderboard tables.
Generators == {"automation/generate_leaderboard", "automation/update_current_leaderboard",
               "generate_leaderboard", "migration/populate_leaderboard_history",
               "analytics_pipeline"}

\* item.get('telegram_id') of a row without a participant: None, which the
\* scripts test with "if not user_id".
NoUser == 0
\* "rank": None of a row whose rank is filled in later.
NoRank == 0

BoardUsers == {1, 2}
BoardScores == {5, 7}
RowCounts == 0..2

\* Timestamps are instants counted from 00:00:00 of day 0 (START_DATE for the
\* migration); a day has TicksPerDay of them and the last one is 23:59:59.
TicksPerDay == 2
MaxClock == 3

Day(ts) == ts \div TicksPerDay
DayStart(d) == d * TicksPerDay
DayEnd(d) == d * TicksPerDay + TicksPerDay - 1

\* What calculate_leaderboard (or calculate_leaderboard_for_date) returns: one
\* row per author, in the order the database hands them over; the row of an
\* author without telegram_id lacks it.  Scores: every author may hold the
\* top score, the last participant may also hold the lower one.
TopScore == CHOOSE s \in BoardScores : \A t \in BoardScores : t <= s
LastUser == CHOOSE u \in BoardUsers : \A v \in BoardUsers : v <= u

\* calculate_leaderboard (a database function): the four subtotals of an
\* author and grand_total_score, their sum.
SubtotalsOf(score) ==
    [total_score_from_tweets |-> score - 4,
     total_score_from_engagements |-> 2,
     total_score_from_telegram |-> 1,
     total_score_from_contributions |-> 1]

calculate_leaderboard(telegram_id, score) ==
    LET sub == SubtotalsOf(score)
    IN  [telegram_id |-> telegram_id,
         total_score_from_tweets |-> sub.total_score_from_tweets,
         total_score_from_engagements |-> sub.total_score_from_engagements,
         total_score_from_telegram |-> sub.total_score_from_telegram,
         total_score_from_contributions |-> sub.total_score_from_contributions,
         grand_total_score |-> sub.total_score_from_tweets
                               + sub.total_score_from_engagements
                               + sub.total_score_from_telegram
                               + sub.total_score_from_contributions]

RpcRows ==
    {calculate_leaderboard(p[1], p[2]) :
        p \in {q \in (BoardUsers \cup {NoUser}) \X BoardScores :
                   q[2] = TopScore \/ q[1] = LastUser}}

RpcResults ==
    {data \in UNION {[1..n -> RpcRows] : n \in RowCounts} :
        \A i, j \in DOMAIN data : i # j => data[i].telegram_id # data[j].telegram_id}

HasTelegramId(item) == item.telegram_id # NoUser

\* A history record that leaves total_score_from_contributions at its default.
HistoryRow_NoContributions(ts, user_id, rank, item) ==
    [snapshot_timestamp |-> ts, user_id |-> user_id, rank |-> rank,
     total_score_from_tweets |-> item.total_score_from_tweets,
     total_score_from_engagements |-> item.total_score_from_engagements,
     total_score_from_telegram |-> item.total_score_from_telegram,
     total_score_from_contributions |-> 0,
     grand_total_score |-> item.grand_total_score]

\* The record a script builds for leaderboard_history from an item that
\* carries the score columns (the counters and names are copied likewise).
HistoryRow(ts, user_id, rank, item) ==
    [snapshot_timestamp |-> ts, user_id |-> user_id, rank |-> rank,
     total_score_from_tweets |-> item.total_score_from_tweets,
     total_score_from_engagements |-> item.total_score_from_engagements,
     total_score_from_telegram |-> item.total_score_from_telegram,
     total_score_from_contributions |-> item.total_score_from_contributions,
     grand_total_score |-> item.grand_total_score]

\* The record a script builds for the live table.
LiveRow(user_id, rank, item, ts) ==
    [user_id |-> user_id, rank |-> rank,
     total_score_from_tweets |-> item.total_score_from_tweets,
     total_score_from_engagements |-> item.total_score_from_engagements,
     total_score_from_telegram |-> item.total_score_from_telegram,
     total_score_from_contributions |-> item.total_score_from_contributions,
     grand_total_score |-> item.grand_total_score,
     last_updated |-> ts]

\* sorted(rows, key=lambda x: x.get('grand_total_score', 0), reverse=True):
\* Python's sort is stable, also with reverse=True, so rows of equal score
\* keep the order of the input.
InsertByScore(s, x) ==
    LET k == Cardinality({i \in 1..Len(s) :
                             s[i].grand_total_score >= x.grand_total_score})
    IN  SubSeq(s, 1, k) \o <<x>> \o SubSeq(s, k + 1, Len(s))

RECURSIVE sorted_reverse(_)
sorted_reverse(rows) ==
    IF rows = <<>> THEN <<>>
    ELSE InsertByScore(sorted_reverse(SubSeq(rows, 1, Len(rows) - 1)), rows[Len(rows)])

\* The ranking the database functions apply (update_leaderboard_ranks,
\* update_leaderboard_history_ranks, generate_retroactive_leaderboard.sql):
\* position by grand_total_score descending, equal scores by participant id.
RankedBefore(a, b) ==
    \/ a.grand_total_score > b.grand_total_score
    \/ a.grand_total_score = b.grand_total_score /\ a.user_id < b.user_id

RankIn(rows, r) == 1 + Cardinality({q \in rows : RankedBefore(q, r)})

update_leaderboard_ranks(live) == {[r EXCEPT !.rank = RankIn(live, r)] : r \in live}

LatestSnapshot(history) ==
    CHOOSE ts \in {r.snapshot_timestamp : r \in history} :
        \A r \in history : r.snapshot_timestamp <= ts

SnapshotAt(history, ts) == {r \in history : r.snapshot_timestamp = ts}

update_leaderboard_history_ranks(history) ==
    IF history = {} THEN {}
    ELSE LET current == SnapshotAt(history, LatestSnapshot(history))
         IN  (history \ current) \cup {[r EXCEPT !.rank = RankIn(current, r)] : r \in current}

\* upsert(records, on_conflict='user_id') on the live table: a row of the same
\* user_id is replaced, every other row stays.
upsert_on_user_id(live, records) ==
    {r \in live : \A n \in records : n.user_id # r.user_id} \cup records

\* .gte('snapshot_timestamp', today 00:00:00+00).lt('snapshot_timestamp',
\* today 23:59:59+00) finds a row.
check_if_leaderboard_already_generated_today(history, now) ==
    \E r \in history :
        /\ r.snapshot_timestamp >= DayStart(Day(now))
        /\ r.snapshot_timestamp < DayEnd(Day(now))

\* How an invocation ends: the two tables, what happened ("skipped",
\* "no_data", "failed" when a write to one of the tables failed, "done"), what
\* the script reported ("success", "warning", "failure") and the steps it took.
RunResult(live, history, outcome, report, steps) ==
    [leaderboard |-> live, leaderboard_history |-> history, gen_outcome |-> outcome,
     gen_report |-> report, gen_steps |-> steps]

\* The store may reject the write of one table during an invocation; the
\* client then raises from execute().
Faults == {"none", "live", "history"}

\* ---- automation/generate_leaderboard.py ----

\* generate_retroactive_leaderboard.sql, run command by command: the ranked
\* list of the participants, tagged with the time of the generation.
generate_retroactive_leaderboard(data, now) ==
    LET rows == {HistoryRow(now, data[i].telegram_id, NoRank, data[i]) :
                    i \in {j \in DOMAIN data : HasTelegramId(data[j])}}
    IN  {[r EXCEPT !.rank = RankIn(rows, r)] : r \in rows}

\* Copies the newest snapshot of leaderboard_history into the live table.
update_current_leaderboard(live, history, now) ==
    IF history = {} THEN live
    ELSE LET leaderboard_data == SnapshotAt(history, LatestSnapshot(history))
             live_records == {LiveRow(r.user_id, r.rank, r, now) :
                                 r \in leaderboard_data}
         IN  upsert_on_user_id({}, live_records)

generate_leaderboard_main(live, history, data, now, fault) ==
    LET \* clear_existing_data empties both tables
        cleared == <<"check", "clear_history", "clear_live">>
        regenerated == generate_retroactive_leaderboard(data, now)
        generated == cleared \o <<"compute", "rank", "write_history">>
    IN  IF check_if_leaderboard_already_generated_today(history, now)
        THEN RunResult(live, history, "skipped", "success", <<"check">>)
        ELSE IF fault = "history"
        THEN \* run_sql_from_file: a command fails, sys.exit(1)
             RunResult({}, {}, "failed", "failure", cleared \o <<"compute", "rank">>)
        ELSE IF regenerated = {}
        THEN \* update_current_leaderboard finds no snapshot and returns False
             RunResult({}, regenerated, "done", "success", generated)
        ELSE IF fault = "live"
        THEN \* update_current_leaderboard catches the exception and returns
             \* False; main logs a warning and then its success banner
             RunResult({}, regenerated, "failed", "success", generated \o <<"clear_live">>)
        ELSE RunResult(update_current_leaderboard({}, regenerated, now), regenerated,
                       "done", "success", generated \o <<"clear_live", "write_live">>)

\* ---- automation/update_current_leaderboard.py ----

update_leaderboard(live, history, data, now, fault) ==
    LET with_id == SelectSeq(data, HasTelegramId)
        records_to_insert ==
            {LiveRow(with_id[i].telegram_id, NoRank, with_id[i], now) :
                i \in DOMAIN with_id}
        history_records_sorted == sorted_reverse(with_id)
        history_records ==
            {HistoryRow(now, history_records_sorted[i].telegram_id, i,
                        history_records_sorted[i]) :
                i \in DOMAIN history_records_sorted}
        ranked == <<"clear_live", "compute", "write_live", "rank">>
    IN  IF data = <<>>
        THEN \* the live table was emptied in step 1
             RunResult({}, history, "no_data", "failure", <<"clear_live", "compute">>)
        ELSE IF fault = "live"
        THEN RunResult({}, history, "failed", "failure", <<"clear_live", "compute">>)
        ELSE IF fault = "history"
        THEN RunResult(update_leaderboard_ranks(records_to_insert), history,
                       "failed", "failure", ranked \o <<"rank">>)
        ELSE RunResult(update_leaderboard_ranks(records_to_insert),
                       history \cup history_records, "done", "success",
                       ranked \o <<"rank", "write_history">>)

\* ---- generate_leaderboard.py (the one yellow_pipeline imports) ----

root_generate_leaderboard(live, history, data, now, fault) ==
    LET history_records ==
            {HistoryRow(now, data[i].telegram_id, NoRank, data[i]) : i \in DOMAIN data}
        live_records ==
            {LiveRow(data[i].telegram_id, NoRank, data[i], now) : i \in DOMAIN data}
    IN  IF data = <<>> THEN RunResult(live, history, "no_data", "warning", <<"compute">>)
        ELSE IF fault = "history" \/ \E i \in DOMAIN data : ~HasTelegramId(data[i])
        THEN \* user_id is the participant's key in both tables: the insert of
             \* a row without it is rejected; the exception is logged and re-raised
             RunResult(live, history, "failed", "failure", <<"compute">>)
        ELSE IF fault = "live"
        THEN RunResult(live, history \cup history_records, "failed", "failure",
                       <<"compute", "write_history">>)
        ELSE RunResult(update_leaderboard_ranks(upsert_on_user_id(live, live_records)),
                       update_leaderboard_history_ranks(history \cup history_records),
                       "done", "success",
                       <<"compute", "write_history", "write_live", "rank", "rank">>)

\* ---- migration/populate_leaderboard_history.py ----

\* One pass of the loop over the days: delete the day's rows, compute the
\* leaderboard of the day, rank it and insert it.
populate_day(history, d, data) ==
    LET kept == {r \in history : ~(/\ r.snapshot_timestamp >= DayStart(d)
                                   /\ r.snapshot_timestamp <= DayEnd(d))}
        sorted_leaderboard == sorted_reverse(data)
        records_to_insert ==
            {HistoryRow(DayEnd(d), sorted_leaderboard[rank].telegram_id, rank,
                        sorted_leaderboard[rank]) :
                rank \in {i \in DOMAIN sorted_leaderboard :
                             HasTelegramId(sorted_leaderboard[i])}}
    IN  kept \cup records_to_insert

RECURSIVE populate_from(_, _, _, _)
populate_from(history, current_date, today, data_of) ==
    IF current_date > today THEN history
    ELSE populate_from(populate_day(history, current_date, data_of[current_date]),
                       current_date + 1, today, data_of)

populate_history(live, history, data_of, now) ==
    RunResult(live, populate_from(history, 0, Day(now), data_of), "done", "success",
              <<"clear_history", "compute", "rank", "write_history">>)

\* ---- telegram_tools/analytics_pipeline.py ----

pipeline_generate_leaderboard(live, history, data, now, fault) ==
    LET insert_data ==
            {LiveRow(data[i].telegram_id, i, data[i], now) : i \in DOMAIN data}
        history_data ==
            {HistoryRow(now, data[i].telegram_id, i, data[i]) : i \in DOMAIN data}
        ranked == <<"check", "compute", "clear_live", "rank">>
    IN  IF data = <<>>
        THEN RunResult(live, history, "no_data", "warning", <<"check", "compute">>)
        ELSE IF fault = "live" \/ \E i \in DOMAIN data : ~HasTelegramId(data[i])
        THEN \* the live table is emptied, then the insert is rejected
             RunResult({}, history, "failed", "failure", ranked)
        ELSE IF fault = "history"
        THEN RunResult(insert_data, history, "failed", "failure",
                       ranked \o <<"write_live">>)
        ELSE RunResult(insert_data, history \cup history_data, "done", "success",
                       ranked \o <<"write_live", "write_history">>)

\* The pipeline's own copy of the check on leaderboard_history.
check_if_already_ran_today(history, now) ==
    \E r \in history :
        /\ r.snapshot_timestamp >= DayStart(Day(now))
        /\ r.snapshot_timestamp < DayEnd(Day(now))

run_pipeline(live, history, data, now, fault) ==
    IF check_if_already_ran_today(history, now)
    THEN RunResult(live, history, "skipped", "success", <<"check">>)
    ELSE pipeline_generate_leaderboard(live, history, data, now, fault)

\* ---- the deployments ----

InitLeaderboard ==
    /\ impl = "realtime_activity_updater"
    /\ mult = DefaultMultiplier
    /\ received = 0
    /\ session_state = NewSession
    /\ PipeIdle
    /\ tracker = "none"
    /\ EngIdle
    /\ generator \in Generators
    /\ BoardIdle
    /\ RunsIdle
    /\ LateIdle

\* An invocation at time now that ends as the record res says.
Invocation(now, data, res) ==
    /\ leaderboard' = res.leaderboard
    /\ leaderboard_history' = res.leaderboard_history
    /\ gen_outcome' = res.gen_outcome
    /\ gen_report' = res.gen_report
    /\ gen_steps' = res.gen_steps
    /\ calculated' = data
    /\ now_utc' = now + 1
    /\ UNCHANGED <<generator, scorerVars, pipeVars, engVars, runs, lateVars>>

AutomationGenerateLeaderboard ==
    /\ generator = "automation/generate_leaderboard"
    /\ \E now \in now_utc..MaxClock, data \in RpcResults, fault \in Faults :
          Invocation(now, data,
                     generate_leaderboard_main(leaderboard, leaderboard_history, data, now, fault))

UpdateLeaderboard ==
    /\ generator = "automation/update_current_leaderboard"
    /\ \E now \in now_utc..MaxClock, data \in RpcResults, fault \in Faults :
          Invocation(now, data,
                     update_leaderboard(leaderboard, leaderboard_history, data, now, fault))

GenerateLeaderboard ==
    /\ generator = "generate_leaderboard"
    /\ \E now \in now_utc..MaxClock, data \in RpcResults, fault \in Faults :
          Invocation(now, data,
                     root_generate_leaderboard(leaderboard, leaderboard_history, data, now, fault))

PopulateHistory ==
    /\ generator = "migration/populate_leaderboard_history"
    /\ \E now \in now_utc..MaxClock :
          \E data_of \in [0..Day(now) -> RpcResults] :
              Invocation(now, data_of[Day(now)],
                         populate_history(leaderboard, leaderboard_history, data_of, now))

RunPipeline ==
    /\ generator = "analytics_pipeline"
    /\ \E now \in now_utc..MaxClock, data \in RpcResults, fault \in Faults :
          Invocation(now, data,
                     run_pipeline(leaderboard, leaderboard_history, data, now, fault))

NextLeaderboard ==
    \/ AutomationGenerateLeaderboard
    \/ UpdateLeaderboard
    \/ GenerateLeaderboard
    \/ PopulateHistory
    \/ RunPipeline

SpecLeaderboard == InitLeaderboard /\ [][NextLeaderboard]_vars

-----------------------------------------------------------------------------
(* Claims about the leaderboard tables *)

\* The time of the invocation that has just ended.
InvokedAt == now_utc - 1

DayHasEntry(history, d) == \E r \in history : Day(r.snapshot_timestamp) = d

Participants(data) == {data[i].telegram_id : i \in {j \in DOMAIN data : HasTelegramId(data[j])}}

UserIds(rows) == {r.user_id : r \in rows}

SnapshotTimestamps(history) == {r.snapshot_timestamp : r \in history}

ContiguousRanks(rows) == {r.rank : r \in rows} = 1..Cardinality(rows)

\* C17: leaderboard_history is append-only: an invocation of a generation
\* script keeps every row the table held before it, unchanged, and every row it
\* adds carries a snapshot timestamp of its own, one that no snapshot stored
\* before the invocation carries.
C17_HistoryAppendOnly ==
    [][/\ leaderboard_history \subseteq leaderboard_history'
       /\ \A r \in leaderboard_history' \ leaderboard_history :
              r.snapshot_timestamp \notin SnapshotTimestamps(leaderboard_history)]_vars

\* C18: generation runs at most once per UTC day: an invocation on a day that
\* already has a row in leaderboard_history writes neither table, and the
\* history never holds two snapshots whose timestamps fall on the same day.
C18_AtMostOncePerDay ==
    [][/\ DayHasEntry(leaderboard_history, Day(InvokedAt'))
              => UNCHANGED <<leaderboard, leaderboard_history>>
       /\ \A r, q \in leaderboard_history' :
              Day(r.snapshot_timestamp) = Day(q.snapshot_timestamp)
                  => r.snapshot_timestamp = q.snapshot_timestamp]_vars

\* C19: after a completed generation the live table holds exactly one row for
\* each participant of the list just calculated, and no row of a participant
\* who is not on that list.
C19_LiveReflectsOneGeneration ==
    (gen_outcome = "done" /\ generator # "migration/populate_leaderboard_history")
        => /\ UserIds(leaderboard) = Participants(calculated)
           /\ Cardinality(leaderboard) = Cardinality(UserIds(leaderboard))

\* C20: in the live table and in every snapshot of the history the N rows
\* carry exactly the ranks 1..N, each once, whatever the scores (ties
\* included) and also when rows without telegram_id were skipped.
C20_RanksContiguous ==
    /\ ContiguousRanks(leaderboard)
    /\ \A ts \in SnapshotTimestamps(leaderboard_history) :
           ContiguousRanks(SnapshotAt(leaderboard_history, ts))

RankFollowsScore(rows) ==
    \A p, q \in rows :
        p.grand_total_score > q.grand_total_score => p.rank < q.rank

\* C21: rank follows grand_total_score descending: in the live table and in
\* every snapshot of the history, a participant with a strictly higher
\* grand_total_score than another carries a strictly smaller rank.
C21_RankFollowsScore ==
    /\ RankFollowsScore(leaderboard)
    /\ \A ts \in SnapshotTimestamps(leaderboard_history) :
           RankFollowsScore(SnapshotAt(leaderboard_history, ts))

\* C22: the tie-break is deterministic: two snapshots written from the same
\* set of (participant, grand_total_score) pairs, in whatever order the rows
\* were handed over, give every participant the same rank.
C22_TieBreakDeterministic ==
    \A ts1, ts2 \in SnapshotTimestamps(leaderboard_history) :
        LET a == SnapshotAt(leaderboard_history, ts1)
            b == SnapshotAt(leaderboard_history, ts2)
            Pairs(rows) == {<<r.user_id, r.grand_total_score>> : r \in rows}
        IN  Pairs(a) = Pairs(b)
                => \A p \in a, q \in b : p.user_id = q.user_id => p.rank = q.rank

SumOfSubtotals(r) ==
    r.total_score_from_tweets + r.total_score_from_engagements
        + r.total_score_from_telegram + r.total_score_from_contributions

\* C23: in every row of the live table and of the history, grand_total_score
\* equals total_score_from_tweets + total_score_from_engagements +
\* total_score_from_telegram + total_score_from_contributions.
C23_GrandTotalIsSum ==
    \A r \in leaderboard \cup leaderboard_history :
        r.grand_total_score = SumOfSubtotals(r)

\* A generation has written both tables, rows of both scores among them.
C23_Witness ==
    /\ gen_outcome = "done"
    /\ leaderboard # {}
    /\ \A score \in BoardScores :
           \E r \in leaderboard_history : r.grand_total_score = score

\* The scripts that generate a leaderboard (the migration only backfills
\* the history).
GenerationScripts == Generators \ {"migration/populate_leaderboard_history"}

\* C24: a failure of the live write or of the history write makes the run
\* failed as a whole: a generation run in which one of the two writes failed
\* ends reporting a failure, never its success outcome.
C24_WriteFailureReported ==
    (generator \in GenerationScripts /\ gen_outcome = "failed")
        => gen_report = "failure"

StoreWrites == {"clear_live", "clear_history", "write_live", "write_history"}

StepsNamed(name) == {i \in DOMAIN gen_steps : gen_steps[i] = name}

\* C25: a generation run follows IDLE -> CHECK_ALREADY_RUN_TODAY -> {SKIP |
\* COMPUTE_SUBTOTALS -> RANK -> WRITE_LIVE -> WRITE_HISTORY} -> DONE: no table
\* is written before the already-run check, a skipped run writes nothing,
\* ranks are assigned before the live write and the live write comes before
\* the history write.
C25_RunFollowsStateMachine ==
    generator \in GenerationScripts
        => /\ \A i \in DOMAIN gen_steps :
                  gen_steps[i] \in StoreWrites => \E j \in StepsNamed("check") : j < i
           /\ gen_outcome = "skipped"
                  => \A i \in DOMAIN gen_steps : gen_steps[i] \notin StoreWrites
           /\ \A i \in StepsNamed("write_live") : \E j \in StepsNamed("rank") : j < i
           /\ \A i \in StepsNamed("write_live"), j \in StepsNamed("write_history") : i < j

-----------------------------------------------------------------------------
(* Two runs of the realtime updater started side by side (two cron          *)
(* invocations that overlap).  Each run is the sequence of store and file   *)
(* accesses of run_update; the accesses of the two runs interleave freely.  *)

\* Length of the message stream while the two runs are under way.
MaxRaced == 3

\* One participant writing on one day: every message falls on the same
\* (participant, date) record.
OneSender == CHOOSE a \in AmbassadorIds : TRUE
OneDay == CHOOSE d \in Days : TRUE

\* The participant posts a message (the stream is cut at limit).
PostByOne(limit) ==
    /\ Len(msgs) < limit
    /\ \E h \in Hours :
           /\ NotBefore(OneDay, h, msgs)
           /\ msgs' = Append(msgs, [id |-> Len(msgs) + 1, from |-> OneSender,
                                    day |-> OneDay, hour |-> h])
    /\ RunForgotten
    /\ UNCHANGED <<last_message_id, processor_last_run, user_activity>>
    /\ UNCHANGED nonPipeVars

PostDuringRuns == PostByOne(MaxRaced)

\* What a step of a run leaves alone besides the store and the state file.
RunStepKeeps ==
    /\ UNCHANGED <<msgs, processor_last_run, new_messages, activity_data,
                   records_to_save, prev_activity, last_op, last_outcome, repeated>>
    /\ UNCHANGED <<scorerVars, engVars, boardVars, lateVars>>

\* 1. last_id = get_last_processed_id()
GetLastProcessedId(r) ==
    /\ runs[r].pc = "idle"
    /\ runs' = [runs EXCEPT ![r].pc = "started", ![r].last_id = last_message_id]
    /\ UNCHANGED <<last_message_id, user_activity>>
    /\ RunStepKeeps

\* 2. iter_messages(target_group, min_id=last_id); the run returns when there
\*    is no new message.  3. the scoring loop works on the run's own batch.
FetchNewMessages(r) ==
    /\ runs[r].pc = "started"
    /\ LET batch == SubSeq(msgs, runs[r].last_id + 1, Len(msgs))
       IN  runs' = [runs EXCEPT ![r].pc = IF batch = <<>> THEN "done" ELSE "fetched",
                                ![r].new_messages = batch]
    /\ UNCHANGED <<last_message_id, user_activity>>
    /\ RunStepKeeps

\* 4. the stored rows of the affected days are read and the batch's sessions
\*    are merged into them: records_to_save.
ReadExistingAndMerge(r) ==
    /\ runs[r].pc = "fetched"
    /\ runs' = [runs EXCEPT ![r].pc = "merged",
                            ![r].records_to_save =
                                RealtimeRecords(runs[r].new_messages, user_activity)]
    /\ UNCHANGED <<last_message_id, user_activity>>
    /\ RunStepKeeps

\* 5. await save_bulk_activity_to_supabase(records_to_save)
UpsertRecords(r) ==
    /\ runs[r].pc = "merged"
    /\ user_activity' = save_bulk_activity_to_supabase(user_activity,
                                                       runs[r].records_to_save)
    /\ runs' = [runs EXCEPT ![r].pc = "saved"]
    /\ UNCHANGED last_message_id
    /\ RunStepKeeps

\* save_last_processed_id(new_messages[-1].id)
SaveLastProcessedId(r) ==
    /\ runs[r].pc = "saved"
    /\ last_message_id' = runs[r].new_messages[Len(runs[r].new_messages)].id
    /\ runs' = [runs EXCEPT ![r].pc = "done"]
    /\ UNCHANGED user_activity
    /\ RunStepKeeps

NextConcurrent ==
    \/ PostDuringRuns
    \/ \E r \in RunIds : GetLastProcessedId(r)
    \/ \E r \in RunIds : FetchNewMessages(r)
    \/ \E r \in RunIds : ReadExistingAndMerge(r)
    \/ \E r \in RunIds : UpsertRecords(r)
    \/ \E r \in RunIds : SaveLastProcessedId(r)

\* Two overlapping runs of the realtime updater on a growing message stream.
SpecConcurrent == InitPipeline /\ [][NextConcurrent]_vars

-----------------------------------------------------------------------------
(* Claims about overlapping runs *)

\* The id of the newest message a run fetched (its watermark if it fetched none).
FetchedUpTo(r) == runs[r].last_id + Len(runs[r].new_messages)

\* What the table holds when one run works on the messages 1..n1 and, after it
\* has ended, another works on the messages n1+1..n2.
SequentialStore(n1, n2) ==
    LET first == SubSeq(msgs, 1, n1)
        after_first == IF first = <<>> THEN EmptyMap
                       ELSE save_bulk_activity_to_supabase(EmptyMap,
                                RealtimeRecords(first, EmptyMap))
        second == SubSeq(msgs, n1 + 1, n2)
    IN  IF second = <<>> THEN after_first
        ELSE save_bulk_activity_to_supabase(after_first,
                                            RealtimeRecords(second, after_first))

\* C26: when two runs of the realtime updater interleave their read-existing,
\* merge and upsert steps on the same (participant, date), the record stored
\* once both have ended is the record that the two runs store when the one
\* that fetched first ends before the other starts.
C26_ConcurrentRunsConverge ==
    (\A r \in RunIds : runs[r].pc = "done") =>
        LET n1 == IF FetchedUpTo(1) <= FetchedUpTo(2) THEN FetchedUpTo(1)
                  ELSE FetchedUpTo(2)
            n2 == IF FetchedUpTo(1) <= FetchedUpTo(2) THEN FetchedUpTo(2)
                  ELSE FetchedUpTo(1)
        IN  user_activity = SequentialStore(n1, n2)

-----------------------------------------------------------------------------
(* The periodic jobs when Telegram or the store is unavailable during a run *)

\* What may be unavailable during a run: nothing, Telegram (the download
\* raises), or the store (every write of user_activity raises).
Outages == {"none", "download", "save"}

\* How a run hit by an outage ends; a store outage is not met by a run that
\* has nothing to write.
OutcomeUnder(outage, records) ==
    IF outage = "download" THEN "download_failed"
    ELSE IF outage = "save" /\ records # EmptyMap THEN "save_failed"
    ELSE "ok"

\* realtime_activity_updater.main / run_update: an exception of iter_messages
\* or of the upsert leaves run_update at once and is logged by main, so
\* neither the table nor the state file is written.
RunUpdateOrFail ==
    /\ last_message_id < Len(msgs)
    /\ \E outage \in Outages :
         LET batch == SubSeq(msgs, last_message_id + 1, Len(msgs))
             fetched == IF outage = "download" THEN <<>> ELSE batch
             data == ScoringLoop(fetched, EmptyMap, MessageCap, DefaultMultiplier)
             records == RealtimeRecords(fetched, user_activity)
             outcome == OutcomeUnder(outage, records)
         IN  /\ RunEnds("realtime_activity_updater", batch, data, records, outcome)
             /\ user_activity' = IF outcome = "ok"
                                 THEN save_bulk_activity_to_supabase(user_activity, records)
                                 ELSE user_activity
             /\ last_message_id' = IF outcome = "ok" THEN batch[Len(batch)].id
                                   ELSE last_message_id
    /\ UNCHANGED <<msgs, processor_last_run>>
    /\ UNCHANGED nonPipeVars

\* TelegramDataProcessor.run_processing_cycle: download_messages_from_group
\* answers an exception with an empty list, save_activity_records logs the
\* exception of each record and goes on; the cycle then calls save_state,
\* which sets last_run to the present.
TdpCycleOrFail ==
    /\ processor_last_run < Len(msgs)
    /\ \E outage \in Outages :
         LET batch == SelectSeq(SubSeq(msgs, processor_last_run + 1, Len(msgs)), HasSender)
             messages == IF outage = "download" THEN <<>> ELSE batch
             records == TdpRecords(messages)
             outcome == OutcomeUnder(outage, records)
         IN  /\ RunEnds("telegram_data_processor", batch, records, records, outcome)
             /\ user_activity' = IF outcome = "ok"
                                 THEN save_activity_records(user_activity, records,
                                                            DOMAIN records)
                                 ELSE user_activity
             /\ processor_last_run' = Len(msgs)
    /\ UNCHANGED <<msgs, last_message_id>>
    /\ UNCHANGED nonPipeVars

NextOutage ==
    \/ AddMessage
    \/ RunUpdateOrFail
    \/ TdpCycleOrFail

\* The two watermark-driven jobs with outages of Telegram and of the store.
SpecOutage == InitPipeline /\ [][NextOutage]_vars

-----------------------------------------------------------------------------
(* Claims about failed runs *)

\* The watermark a job's next run starts from.
Watermark(op) ==
    IF op = "telegram_data_processor" THEN processor_last_run ELSE last_message_id

\* C27: when the download or the save of a run's messages has failed, the
\* stored watermark has not moved past any of those messages: each of them is
\* still above it, so the next run fetches and scores it again.
C27_FailedRunIsRetried ==
    last_outcome \in {"download_failed", "save_failed"} =>
        \A i \in DOMAIN new_messages : new_messages[i].id > Watermark(last_op)

-----------------------------------------------------------------------------
(* The scripts that score messages read from JSON files, on files that hold *)
(* defective messages.                                                      *)

\* A message is written to the export / the day's file, possibly defective.
PostRecord ==
    /\ Len(msgs) < MaxMsgs
    /\ \E s \in Senders, d \in Days, h \in Hours, defect \in Defects :
           /\ NotBefore(d, h, msgs)
           /\ msgs' = Append(msgs, [id |-> Len(msgs) + 1, from |-> s, day |-> d,
                                    hour |-> h, defect |-> defect])
    /\ RunForgotten
    /\ UNCHANGED <<last_message_id, processor_last_run, user_activity>>
    /\ UNCHANGED nonPipeVars

\* process_downloaded_messages.process_activity_scores(date_str, messages):
\* a message without a registered sender is passed over; the date of every
\* other message is parsed without a guard, so the first one that does not
\* parse raises out of the function, before any record of the file is built.
process_activity_scores(messages) ==
    LET registered == SelectSeq(messages, LAMBDA message :
                          IsParticipantMessage(message) /\ Defect(message) # "sender")
        raises == \E i \in DOMAIN registered : Defect(registered[i]) = "date"
    IN  IF raises THEN EmptyMap ELSE TelegramHistoryRecords(registered)

\* process_scoring_group: every file of the scoring directory in turn; the
\* exception of a file is logged and the next file is taken.
process_scoring_group(stream) ==
    LET of_day(d) == process_activity_scores(OnDay(stream, d))
    IN  [k \in UNION {DOMAIN of_day(d) : d \in Days} |-> of_day(k[2])[k]]

\* process_downloaded_messages.main (DRY_RUN as the file sets it, or turned
\* off): the records are logged, or saved when their key is not stored yet.
ProcessDownloadedMessages ==
    /\ msgs # <<>>
    /\ \E DRY_RUN \in BOOLEAN :
         LET data == ScoringLoop(msgs, EmptyMap, MessageCap, DefaultMultiplier)
             records == process_scoring_group(msgs)
         IN  /\ RunEnds(IF DRY_RUN THEN "process_downloaded_messages_dry_run"
                        ELSE "process_downloaded_messages",
                        msgs, data, records, "ok")
             /\ user_activity' = IF DRY_RUN THEN user_activity
                                 ELSE SaveEach(user_activity, records, DOMAIN records, TRUE)
    /\ UNCHANGED <<msgs, last_message_id, processor_last_run>>
    /\ UNCHANGED nonPipeVars

NextDefects ==
    \/ PostRecord
    \/ PopulateFromJson
    \/ ProcessDownloadedMessages

\* The JSON-reading scripts on files with defective messages.
SpecDefects == InitPipeline /\ [][NextDefects]_vars

-----------------------------------------------------------------------------
(* Claims about defective input *)

\* The batch without its defective messages.
WithoutDefects(batch) == SelectSeq(batch, LAMBDA message : Defect(message) = "none")

\* What a JSON-reading script computes from a batch.
ScoredFrom(op, batch) ==
    IF op = "populate_from_json" THEN PopulateFromJsonRecords(batch)
    ELSE process_scoring_group(batch)

JsonScripts == {"populate_from_json", "process_downloaded_messages",
                "process_downloaded_messages_dry_run"}

\* C28: a message with a malformed timestamp or an unparseable sender is
\* skipped alone: the records a run computes from a batch are the records it
\* computes from the batch without its defective messages.
C28_BadRecordSkippedAlone ==
    last_op \in JsonScripts =>
        records_to_save = ScoredFrom(last_op, WithoutDefects(new_messages))

-----------------------------------------------------------------------------
(* One participant's busy day: enough messages in two sessions for the      *)
(* cumulative scores to need more than four decimals.                       *)

\* Length of the message stream of the busy day.
MaxDayMessages == 9

PostOnBusyDay == PostByOne(MaxDayMessages)

NextTotals ==
    \/ PostOnBusyDay
    \/ PopulateFromJson
    \/ RunUpdate
    \/ TdpCycle

\* The writers of user_activity named by the daily-total claim, on one
\* participant's day.
SpecTotals == InitPipeline /\ [][NextTotals]_vars

-----------------------------------------------------------------------------
(* Claims about the stored daily total *)

\* C29: in every stored record of user_activity, total_day_score is the sum
\* of the score fields of the sessions in the record's own session map, after
\* full rebuilds and after any sequence of incremental merges.
C29_TotalIsSumOfSessions ==
    \A k \in DOMAIN user_activity :
        user_activity[k].total_day_score =
            SumScores(user_activity[k].intervals_details_json)

-----------------------------------------------------------------------------
(* The session bucketer over the whole day: the realtime updater on         *)
(* messages posted at any hour.                                             *)

\* Length of the message stream whose hours range over the day.
MaxBucketed == 2

\* telegram_data_processor.SCORING_SESSIONS: the session labels, in order.
SCORING_SESSIONS ==
    <<"00-03", "03-06", "06-09", "09-12", "12-15", "15-18", "18-21", "21-24">>

\* The participant posts a message at any hour (dt.hour is 0..23).
PostAtAnyHour ==
    /\ Len(msgs) < MaxBucketed
    /\ \E h \in 0..23 :
           /\ NotBefore(OneDay, h, msgs)
           /\ msgs' = Append(msgs, [id |-> Len(msgs) + 1, from |-> OneSender,
                                    day |-> OneDay, hour |-> h])
    /\ RunForgotten
    /\ UNCHANGED <<last_message_id, processor_last_run, user_activity>>
    /\ UNCHANGED nonPipeVars

NextBucketer == PostAtAnyHour \/ RunUpdate

\* The realtime updater bucketing the messages of one participant's day.
SpecBucketer == InitPipeline /\ [][NextBucketer]_vars

-----------------------------------------------------------------------------
(* Claims about the session bucketer *)

\* The label the claim gives an hour: the one of the eight labels whose start
\* is floor(hour / 3) * 3.
LabelOf(hour) == SCORING_SESSIONS[(hour \div 3) + 1]

\* The messages of a batch whose hour has the same floor(hour / 3).
SameBucket(batch, hour) ==
    {j \in DOMAIN batch : batch[j].hour \div 3 = hour \div 3}

\* C30: the session bucketer is total and exact.  The sessions a run of the
\* updater opens for a batch are the labels "HH-HH" with start
\* floor(h / 3) * 3 and end start + 3 of the batch's hours h in 0..23, each one
\* of the eight labels 00-03 .. 21-24, and two messages are counted in the
\* same session exactly when their hours have the same floor(h / 3).
C30_BucketerTotalAndExact ==
    last_op = "realtime_activity_updater" =>
        LET sessions == activity_data[<<OneSender, OneDay>>]
        IN  /\ DOMAIN sessions =
                   {LabelOf(new_messages[i].hour) : i \in DOMAIN new_messages}
            /\ \A i \in DOMAIN new_messages :
                   sessions[LabelOf(new_messages[i].hour)].messages =
                       Cardinality(SameBucket(new_messages, new_messages[i].hour))

\* A run has bucketed two messages, of hours 21 and 23, into the session "21-24".
C30_Witness ==
    /\ last_op = "realtime_activity_updater"
    /\ Len(new_messages) = 2
    /\ new_messages[1].hour = 21
    /\ new_messages[2].hour = 23
    /\ DOMAIN activity_data[<<OneSender, OneDay>>] = {"21-24"}
    /\ activity_data[<<OneSender, OneDay>>]["21-24"].messages = 2

-----------------------------------------------------------------------------
(* The two recurrences of the session score, side by side *)

RECURSIVE LastScoreChain(_, _, _)
\* The realtime updater's loop body run over n messages of one session.
LastScoreChain(n, cap, m) ==
    IF n = 0 THEN NewSession ELSE ScoreMessage(LastScoreChain(n - 1, cap, m), cap, m)

\* The data processor's loop over the first cap of n messages of one session.
RunningTotal(n, cap, m) ==
    TdpLoop(0, IF n > cap THEN cap ELSE n, Zero, Zero, m)

\* C32: for the same CAP, the same multiplier and the same list of session
\* messages, the running-total recurrence of the data processor (score =
\* total * (multiplier - 1) + 1 over the first CAP messages) and the last-score
\* chain of the realtime updater (score = last_score * multiplier, stopping at
\* CAP) give the same message_count and the same cumulative score.
C32_RecurrencesAgree ==
    LET total == RunningTotal(received, SessionCap(impl), mult)
        chain == LastScoreChain(received, SessionCap(impl), mult)
    IN  /\ total.messages = chain.messages
        /\ total.score = chain.score
        /\ session_state.messages = chain.messages
        /\ session_state.score = chain.score

\* Seven messages under CAP = 5 and multiplier 1.5: both count 5 and sum to
\* 13.1875.
C32_Witness ==
    /\ impl = "populate_from_json"
    /\ mult = [num |-> 3, den |-> 2]
    /\ received = 7
    /\ RunningTotal(received, SessionCap(impl), mult).messages = 5
    /\ session_state.score = Num(131875, 0)
    /\ RunningTotal(received, SessionCap(impl), mult).score = Num(131875, 0)

-----------------------------------------------------------------------------
(* The order in which a batch is processed *)

\* The batch taken in the order p, a permutation of its positions.
Permuted(batch, p) == [i \in 1..Len(batch) |-> batch[p[i]]]

\* How many participant messages of the batch fall in a sender's session.
InSession(batch, key, session_id) ==
    Cardinality({i \in 1..Len(batch) :
        /\ IsParticipantMessage(batch[i])
        /\ <<batch[i].from, batch[i].day>> = key
        /\ get_session_from_date(batch[i].hour) = session_id})

\* The runs whose scoring loop is process_activity_scores or the realtime loop.
OrderedRuns == {"realtime_activity_updater", "yellow_pipeline"}

\* C36: the state of a (sender, day, session) bucket depends only on how many
\* participant messages of the batch fall in it, not on the order in which
\* they are processed: every permutation of the batch gives the same
\* message_count, cumulative score and last_message_score.
C36_OrderIrrelevant ==
    last_op \in OrderedRuns =>
        /\ \A p \in Permutations(1..Len(new_messages)) :
               ScoringLoop(Permuted(new_messages, p), EmptyMap, MessageCap,
                           DefaultMultiplier) = activity_data
        /\ \A key \in DOMAIN activity_data : \A session_id \in DOMAIN activity_data[key] :
               activity_data[key][session_id] =
                   LastScoreChain(InSession(new_messages, key, session_id),
                                  MessageCap, DefaultMultiplier)

\* A run has scored two messages of one sender in one session, the second
\* with the bonus.
C36_Witness ==
    /\ last_op \in OrderedRuns
    /\ Len(new_messages) >= 2
    /\ new_messages[1].id # new_messages[2].id
    /\ \E key \in DOMAIN activity_data : \E session_id \in DOMAIN activity_data[key] :
           /\ activity_data[key][session_id].messages = 2
           /\ activity_data[key][session_id].last_score = Num(12500, 0)

-----------------------------------------------------------------------------
(* The realtime updater's watermark over runs that succeed, find nothing or fail *)

\* run_update when iter_messages(min_id=last_id) yields nothing: the run logs
\* "Nenhuma mensagem nova encontrada", disconnects and returns.
RunUpdateFindsNothing ==
    /\ last_message_id >= Len(msgs)
    /\ RunEnds("realtime_activity_updater", <<>>, EmptyMap, EmptyMap, "no_new_messages")
    /\ UNCHANGED <<msgs, last_message_id, processor_last_run, user_activity>>
    /\ UNCHANGED nonPipeVars

NextWatermark ==
    \/ AddMessage
    \/ RunUpdate
    \/ RunUpdateOrFail
    \/ RunUpdateFindsNothing

\* The realtime updater on a growing stream; a run may find nothing, lose
\* Telegram or the store, or end between the upsert and the state file.
SpecWatermark == InitPipeline /\ [][NextWatermark]_vars

\* A step of the specification that is a run of the updater (the stream is
\* not written by it).
IsRun == msgs' = msgs

\* The largest id among the messages the run fetched.
LargestFetched(batch) == batch[Len(batch)].id

-----------------------------------------------------------------------------
(* Thread identification on the stored posts *)

PostIds == {"p1", "p2"}

\* extendedEntities.media of a post: none, or a first item that is a photo or
\* a video.
Media == {"none", "photo", "video"}

\* save_tweet_json_to_db: content_type from the media list; the post is stored
\* unchecked.  The columns not written here are left out of the row.
TweetRecord(media) ==
    [content_type |-> IF media = "video" THEN "video"
                      ELSE IF media = "photo" THEN "image" ELSE "text_only",
     is_thread |-> "null",
     is_thread_checked |-> FALSE]

\* The scripts that check stored posts for threads.
ThreadCheckers == {"telegram_tools/thread_identifier", "Yellow-main/YELLOW/thread_identifier",
                   "analytics_pipeline"}

\* check_if_thread_via_api / check_thread_status: True (3 or more tweets in
\* the context), False, or None (status other than 200, or an exception).
ApiAnswers == {"True", "False", "None"}

\* The update a script sends for a post the API has answered for.
CheckedRow(script, row, is_thread) ==
    IF script = "telegram_tools/thread_identifier"
    THEN [row EXCEPT !.is_thread_checked = TRUE,
                     !.content_type = IF is_thread = "True" THEN "thread" ELSE "text"]
    ELSE [row EXCEPT !.is_thread = is_thread, !.is_thread_checked = TRUE]

\* select tweet_id ... eq('is_thread_checked', false)
Unchecked == {t \in DOMAIN tweets : ~tweets[t].is_thread_checked}

\* A post that is not stored yet is saved by the timeline scan.
SaveTweetJson ==
    /\ \E tweet_id \in PostIds \ DOMAIN tweets, media \in Media :
          tweets' = [t \in DOMAIN tweets \cup {tweet_id} |->
                        IF t = tweet_id THEN TweetRecord(media) ELSE tweets[t]]
    /\ UNCHANGED last_check
    /\ UNCHANGED <<tracker, reply_quote_data, retweeter_data, ambassador_engagements, utcnow,
                   eng_ran, ambassador_ids, engagement_batches, prev_engagements, eng_repeated>>
    /\ UNCHANGED <<scorerVars, pipeVars, boardVars, runs, authors, asking, generations,
                   pagination>>

\* One run of a thread checker over the unchecked posts: each is looked up
\* and, when the API has answered, updated.
IdentifyThreads ==
    /\ Unchecked # {}
    /\ \E script \in ThreadCheckers, answers \in [Unchecked -> ApiAnswers] :
          /\ tweets' = [t \in DOMAIN tweets |->
                           IF t \in Unchecked /\ answers[t] # "None"
                           THEN CheckedRow(script, tweets[t], answers[t])
                           ELSE tweets[t]]
          /\ last_check' = [script |-> script, answers |-> answers, before |-> tweets]
    /\ UNCHANGED <<tracker, reply_quote_data, retweeter_data, ambassador_engagements, utcnow,
                   eng_ran, ambassador_ids, engagement_batches, prev_engagements, eng_repeated>>
    /\ UNCHANGED <<scorerVars, pipeVars, boardVars, runs, authors, asking, generations,
                   pagination>>

NextThreads == SaveTweetJson \/ IdentifyThreads

\* Posts are stored by the scan and checked for threads by the three scripts.
SpecThreads == InitIdle /\ [][NextThreads]_vars

\* C37: when the thread check finds that a post is not a thread, the post's
\* stored content_type (text_only, image or video) is unchanged and only
\* is_thread_checked becomes true; when the API check fails, neither field
\* changes and the post stays eligible for a later check.
C37_MediaClassKept ==
    \A t \in DOMAIN last_check.answers :
        /\ last_check.answers[t] = "False" =>
               /\ tweets[t].content_type = last_check.before[t].content_type
               /\ tweets[t].is_thread_checked
        /\ last_check.answers[t] = "None" =>
               /\ tweets[t].content_type = last_check.before[t].content_type
               /\ tweets[t].is_thread_checked = last_check.before[t].is_thread_checked
               /\ t \in Unchecked

-----------------------------------------------------------------------------
(* Registration through the bot, and Twitter re-links, on the table authors *)

\* The chats that talk to the bot, and the Twitter accounts they may name.
ChatIds == {1, 2, 3}
TwitterAccounts == {"x1", "x2", "x3"}

\* Rows the table may hold; no attempted insert is left out below this.
MaxAuthors == 4

\* The keys of the table authors: twitter_id is its primary key and
\* telegram_id carries a unique constraint.
KeysHold(table) ==
    \A i, j \in DOMAIN table :
        i # j => /\ table[i].telegram_id # table[j].telegram_id
                 /\ table[i].twitter_id # table[j].twitter_id

\* Faulty variant of the store: a table without keys accepts every write.
authors_write_Unkeyed(table, written) == written

\* A write to authors: the store raises and leaves the table as it was when
\* the written table would break a key.
authors_write(table, written) == IF KeysHold(written) THEN written ELSE table

\* is_author_registered: count > 0 of the rows with the telegram_id; False
\* when the client is missing or the select raises.
is_author_registered(table, telegram_id, lookup_fails) ==
    /\ ~lookup_fails
    /\ \E i \in DOMAIN table : table[i].telegram_id = telegram_id

\* register_author: a plain insert of the row; an exception of the store is
\* logged and answered with False.
register_author(table, telegram_id, twitter_id) ==
    authors_write(table, Append(table, [telegram_id |-> telegram_id, twitter_id |-> twitter_id]))

\* update_author_twitter_info: update(...).eq('telegram_id', telegram_id)
update_author_twitter_info(table, telegram_id, twitter_id) ==
    authors_write(table, [i \in DOMAIN table |->
                             IF table[i].telegram_id = telegram_id
                             THEN [table[i] EXCEPT !.twitter_id = twitter_id]
                             ELSE table[i]])

RegistrationKeeps ==
    UNCHANGED <<scorerVars, pipeVars, engVars, boardVars, runs, generations, last_check,
                pagination>>

\* /start: a registered chat is greeted and the conversation ends; any other
\* chat, and any chat whose lookup failed, is asked for a Twitter username.
Start ==
    /\ \E telegram_id \in ChatIds, lookup_fails \in BOOLEAN :
          asking' = IF is_author_registered(authors, telegram_id, lookup_fails)
                    THEN asking \ {telegram_id}
                    ELSE asking \cup {telegram_id}
    /\ UNCHANGED authors
    /\ RegistrationKeeps

\* receive_twitter_username: a malformed username or one the Twitter API does
\* not know is asked for again; otherwise the author is registered and the
\* conversation ends, whether or not the insert succeeded.
ReceiveTwitterUsername ==
    /\ Len(authors) < MaxAuthors
    /\ \E telegram_id \in asking, answer \in {"invalid", "not_found"} \cup TwitterAccounts :
          IF answer \in TwitterAccounts
          THEN /\ authors' = register_author(authors, telegram_id, answer)
               /\ asking' = asking \ {telegram_id}
          ELSE UNCHANGED <<authors, asking>>
    /\ RegistrationKeeps

\* A registered chat links another Twitter account.
UpdateAuthorTwitterInfo ==
    /\ \E telegram_id \in ChatIds, twitter_id \in TwitterAccounts :
          authors' = update_author_twitter_info(authors, telegram_id, twitter_id)
    /\ UNCHANGED asking
    /\ RegistrationKeeps

NextRegistration == Start \/ ReceiveTwitterUsername \/ UpdateAuthorTwitterInfo

\* The registration bot and the re-link on the table authors.
SpecRegistration == InitIdle /\ [][NextRegistration]_vars

-----------------------------------------------------------------------------
(* The live table against the newest snapshot *)

\* The scripts that write both tables in one generation.
GeneratingScripts == Generators \ {"migration/populate_leaderboard_history"}

\* The rows agree on the participant, the rank and the grand total.
SameRanking(live_row, history_row) ==
    /\ live_row.user_id = history_row.user_id
    /\ live_row.rank = history_row.rank
    /\ live_row.grand_total_score = history_row.grand_total_score

\* C34: after a successful generation the live table and the newest history
\* snapshot hold the same ranked list: for every participant, the rank and
\* grand_total_score of the live row equal those of the history row with the
\* latest snapshot timestamp.
C34_LiveIsNewestSnapshot ==
    (generator \in GeneratingScripts /\ gen_outcome = "done" /\ leaderboard_history # {}) =>
        LET newest == SnapshotAt(leaderboard_history, LatestSnapshot(leaderboard_history))
        IN  /\ \A l \in leaderboard : \E h \in newest : SameRanking(l, h)
            /\ \A h \in newest : \E l \in leaderboard : SameRanking(l, h)

-----------------------------------------------------------------------------
(* Two generation runs of one script, started side by side on one day *)

\* The scripts that look for a snapshot of today before they generate.
CheckingScripts == {"automation/generate_leaderboard", "analytics_pipeline"}

InitGenerations ==
    /\ impl = "realtime_activity_updater"
    /\ mult = DefaultMultiplier
    /\ received = 0
    /\ session_state = NewSession
    /\ PipeIdle
    /\ tracker = "none"
    /\ EngIdle
    /\ generator \in CheckingScripts
    /\ BoardIdle
    /\ RunsIdle
    /\ LateIdle

GenerationKeeps ==
    UNCHANGED <<generator, calculated, gen_outcome, gen_report, gen_steps, scorerVars,
                pipeVars, engVars, runs, authors, asking, last_check, pagination>>

\* The run r moves on to the step pc.
GoesTo(r, pc) == generations' = [generations EXCEPT ![r].pc = pc]

\* main / run_pipeline: the check for a snapshot of today.
CheckAlreadyGenerated(r) ==
    /\ generations[r].pc = "idle"
    /\ LET already ==
               IF generator = "analytics_pipeline"
               THEN check_if_already_ran_today(leaderboard_history, now_utc)
               ELSE check_if_leaderboard_already_generated_today(leaderboard_history, now_utc)
       IN  GoesTo(r, IF already THEN "done" ELSE "checked")
    /\ UNCHANGED <<leaderboard, leaderboard_history, now_utc>>
    /\ GenerationKeeps

\* automation/generate_leaderboard.clear_existing_data: both tables are emptied.
ClearExistingData(r) ==
    /\ generator = "automation/generate_leaderboard"
    /\ generations[r].pc = "checked"
    /\ leaderboard_history' = {}
    /\ leaderboard' = {}
    /\ GoesTo(r, "cleared")
    /\ UNCHANGED now_utc
    /\ GenerationKeeps

\* run_sql_from_file(generate_retroactive_leaderboard.sql): the ranked list is
\* inserted into the history under the time of the generation.
RunSqlFromFile(r) ==
    /\ generator = "automation/generate_leaderboard"
    /\ generations[r].pc = "cleared"
    /\ \E data \in RpcResults :
          leaderboard_history' =
              leaderboard_history \cup generate_retroactive_leaderboard(data, now_utc)
    /\ now_utc' = now_utc + 1
    /\ GoesTo(r, "generated")
    /\ UNCHANGED leaderboard
    /\ GenerationKeeps

\* update_current_leaderboard, first half: the newest snapshot is read and the
\* live table emptied; without a snapshot the function returns False.
ReadNewestSnapshot(r) ==
    /\ generator = "automation/generate_leaderboard"
    /\ generations[r].pc = "generated"
    /\ IF leaderboard_history = {}
       THEN /\ GoesTo(r, "done")
            /\ UNCHANGED leaderboard
       ELSE /\ generations' =
                   [generations EXCEPT ![r].pc = "live_cleared",
                                       ![r].snapshot = SnapshotAt(leaderboard_history,
                                                           LatestSnapshot(leaderboard_history))]
            /\ leaderboard' = {}
    /\ UNCHANGED <<leaderboard_history, now_utc>>
    /\ GenerationKeeps

\* update_current_leaderboard, second half: the rows read are upserted.
UpsertLive(r) ==
    /\ generator = "automation/generate_leaderboard"
    /\ generations[r].pc = "live_cleared"
    /\ leaderboard' = upsert_on_user_id(leaderboard,
                           {LiveRow(h.user_id, h.rank, h, now_utc) : h \in generations[r].snapshot})
    /\ GoesTo(r, "done")
    /\ UNCHANGED <<leaderboard_history, now_utc>>
    /\ GenerationKeeps

\* AnalyticsPipeline.generate_leaderboard: rpc('calculate_leaderboard'); the
\* run ends when the list is empty.
CalculateLeaderboard(r) ==
    /\ generator = "analytics_pipeline"
    /\ generations[r].pc = "checked"
    /\ \E data \in RpcResults :
          generations' = [generations EXCEPT ![r].pc = IF data = <<>> THEN "done"
                                                      ELSE "calculated",
                                             ![r].data = data]
    /\ UNCHANGED <<leaderboard, leaderboard_history, now_utc>>
    /\ GenerationKeeps

\* delete().neq('user_id', 0) on the live table
DeleteLive(r) ==
    /\ generator = "analytics_pipeline"
    /\ generations[r].pc = "calculated"
    /\ leaderboard' = {}
    /\ GoesTo(r, "live_cleared")
    /\ UNCHANGED <<leaderboard_history, now_utc>>
    /\ GenerationKeeps

\* insert(insert_data) on the live table, whose key is user_id: a row without
\* user_id or with the user_id of a stored row makes the insert raise, and
\* generate_leaderboard returns False.
InsertLive(r) ==
    /\ generator = "analytics_pipeline"
    /\ generations[r].pc = "live_cleared"
    /\ LET data == generations[r].data
           insert_data == {LiveRow(data[i].telegram_id, i, data[i], now_utc) : i \in DOMAIN data}
           rejected == \/ \E i \in DOMAIN data : ~HasTelegramId(data[i])
                       \/ \E l \in leaderboard, n \in insert_data : l.user_id = n.user_id
       IN  IF rejected
           THEN /\ GoesTo(r, "done")
                /\ UNCHANGED <<leaderboard, now_utc>>
           ELSE /\ leaderboard' = leaderboard \cup insert_data
                /\ generations' = [generations EXCEPT ![r].pc = "live_written",
                                                      ![r].now = now_utc]
                /\ now_utc' = now_utc + 1
    /\ UNCHANGED leaderboard_history
    /\ GenerationKeeps

\* insert(history_data): the rows just written, under current_time.
InsertHistory(r) ==
    /\ generator = "analytics_pipeline"
    /\ generations[r].pc = "live_written"
    /\ LET data == generations[r].data
       IN  leaderboard_history' = leaderboard_history \cup
               {HistoryRow(generations[r].now, data[i].telegram_id, i, data[i]) :
                   i \in DOMAIN data}
    /\ GoesTo(r, "done")
    /\ UNCHANGED <<leaderboard, now_utc>>
    /\ GenerationKeeps

NextGenerations ==
    \/ \E r \in RunIds : CheckAlreadyGenerated(r)
    \/ \E r \in RunIds : ClearExistingData(r)
    \/ \E r \in RunIds : RunSqlFromFile(r)
    \/ \E r \in RunIds : ReadNewestSnapshot(r)
    \/ \E r \in RunIds : UpsertLive(r)
    \/ \E r \in RunIds : CalculateLeaderboard(r)
    \/ \E r \in RunIds : DeleteLive(r)
    \/ \E r \in RunIds : InsertLive(r)
    \/ \E r \in RunIds : InsertHistory(r)

\* Two runs of one checking script, their steps interleaved in any order.
SpecGenerations == InitGenerations /\ [][NextGenerations]_vars

\* C35: two generation runs started side by side on one calendar day do not
\* produce duplicate snapshots: under any interleaving of their check, clear
\* and write steps, when both have ended the history holds at most one snapshot
\* of that day and the live table one row per participant.
C35_OneSnapshotPerDay ==
    (\A r \in RunIds : generations[r].pc = "done") =>
        /\ \A h, q \in leaderboard_history :
               Day(h.snapshot_timestamp) = Day(q.snapshot_timestamp)
                   => h.snapshot_timestamp = q.snapshot_timestamp
        /\ Cardinality(leaderboard) = Cardinality(UserIds(leaderboard))

-----------------------------------------------------------------------------
(* The paginated fetches of the Twitter API *)

\* The loops: fetch_with_pagination of the engagement trackers and the
\* timeline scan of yellow_pipeline.
PagingScripts == {"fetch_with_pagination", "scan_twitter_timelines"}

\* The participants whose timelines are scanned.
Usernames == <<"a1", "a2">>

\* Cursors the API may hand out; 0 stands for no cursor.
Cursors == {1, 2}

\* The count of gathered items is kept up to this number.
MaxGathered == 2

\* What a request may come back with: a page (its number of items, whether a
\* tweet of it is older than the start date, has_next_page and next_cursor),
\* a status other than 200, or an exception of the client.
Pages ==
    [status : {"200"}, items : 0..1, old : BOOLEAN, has_next_page : BOOLEAN,
     next_cursor : Cursors \cup {0}]

Responses == Pages \cup {[status |-> "429"], [status |-> "500"], [status |-> "error"]}

HasNext(response) == response.has_next_page /\ response.next_cursor # 0

Gathered(all_data, response) ==
    IF all_data + response.items > MaxGathered THEN MaxGathered
    ELSE all_data + response.items

\* The loop is entered: no cursor, nothing gathered.
StartFetch ==
    /\ pagination.pc = "idle"
    /\ \E script \in PagingScripts :
          pagination' = [script |-> script, pc |-> "requesting",
                         user |-> IF script = "scan_twitter_timelines" THEN 1 ELSE 0,
                         cursor |-> 0, all_data |-> 0, response |-> [status |-> "none"]]
    /\ UNCHANGED <<scorerVars, pipeVars, engVars, boardVars, runs, authors, asking,
                   generations, last_check>>

\* One pass of fetch_with_pagination's loop, up to the sleep or the break.
FetchPage ==
    /\ pagination.script = "fetch_with_pagination"
    /\ pagination.pc = "requesting"
    /\ \E response \in Responses :
          pagination' =
              IF response.status # "200"
              THEN [pagination EXCEPT !.pc = "returned", !.response = response]
              ELSE IF HasNext(response)
              THEN [pagination EXCEPT !.pc = "sleeping", !.response = response,
                                      !.cursor = response.next_cursor,
                                      !.all_data = Gathered(@, response)]
              ELSE [pagination EXCEPT !.pc = "returned", !.response = response,
                                      !.all_data = Gathered(@, response)]
    /\ UNCHANGED <<scorerVars, pipeVars, engVars, boardVars, runs, authors, asking,
                   generations, last_check>>

\* The scan leaves the loop of one participant: the next one is scanned from
\* the start, and after the last the scan is over.
NextUsername(loop, response) ==
    IF loop.user < Len(Usernames)
    THEN [loop EXCEPT !.user = @ + 1, !.cursor = 0, !.response = response]
    ELSE [loop EXCEPT !.pc = "returned", !.response = response]

\* One pass of the scan's while loop for the participant at hand.
ScanPage ==
    /\ pagination.script = "scan_twitter_timelines"
    /\ pagination.pc = "requesting"
    /\ \E response \in Responses :
          pagination' =
              IF response.status = "429"
              THEN \* sleep(60); continue
                   [pagination EXCEPT !.pc = "sleeping", !.response = response]
              ELSE IF response.status # "200" \/ response.items = 0
              THEN NextUsername(pagination, response)
              ELSE IF response.old
              THEN NextUsername(pagination, response)
              ELSE IF HasNext(response)
              THEN [pagination EXCEPT !.pc = "sleeping", !.response = response,
                                      !.cursor = response.next_cursor,
                                      !.all_data = Gathered(@, response)]
              ELSE NextUsername([pagination EXCEPT !.all_data = Gathered(@, response)],
                                response)
    /\ UNCHANGED <<scorerVars, pipeVars, engVars, boardVars, runs, authors, asking,
                   generations, last_check>>

\* asyncio.sleep returns and the loop goes round.
Wake ==
    /\ pagination.pc = "sleeping"
    /\ pagination' = [pagination EXCEPT !.pc = "requesting"]
    /\ UNCHANGED <<scorerVars, pipeVars, engVars, boardVars, runs, authors, asking,
                   generations, last_check>>

NextPagination == StartFetch \/ FetchPage \/ ScanPage \/ Wake

\* A paginated fetch against an API that may answer anything; the process
\* keeps running, so each step of the loop that can be taken is taken.
SpecPagination ==
    /\ InitIdle
    /\ [][NextPagination]_vars
    /\ WF_vars(StartFetch)
    /\ WF_vars(FetchPage)
    /\ WF_vars(ScanPage)
    /\ WF_vars(Wake)

\* A response at which fetch_with_pagination leaves its loop.
Stops(response) ==
    \/ response.status \in {"429", "500", "error"}
    \/ response.status = "200" /\ ~HasNext(response)

\* C38: fetch_with_pagination stops at the first response that is not a 200,
\* at a request error and at a page without has_next_page / next_cursor, and
\* every paginated loop that was entered ends, whatever the API answers,
\* repeated 429 answers and a cursor that never changes included.
C38_PaginationTerminates ==
    /\ [](pagination.script = "fetch_with_pagination" /\ Stops(pagination.response)
             => pagination.pc = "returned")
    /\ (pagination.pc # "idle") ~> (pagination.pc = "returned")
====
